---- MODULE Spec2Model ----
(***************************************************************************)
(* A model of the PSD writer: the PackBits encoder (rle.rs), the colour    *)
(* channel (color_channel.rs), the layer (layer.rs, layer/group.rs), the   *)
(* whole-image encoder (image.rs) and the document serializer              *)
(* (document.rs).  Byte strings are sequences of 0..255; an Option is a    *)
(* sequence of length at most one (<<>> is None, <<v>> is Some(v)).        *)
(***************************************************************************)
EXTENDS Integers, Sequences, FiniteSets, TLC

VARIABLES
    source,     \* rle: the byte slice handed to rle::encoded
    encoded,    \* rle: Option of the bytes rle::encoded returned
    doc,        \* document: the Document value the client holds
    out,        \* document: Option of the outcome of the last file_data() call
    outDoc,     \* document: Option of the Document value that call was made on
    prev,       \* document: Option of the outcome of the call before the last
    prevDoc,    \* document: Option of the Document value of the call before
    color_channel, \* channel: Option of the ColorChannel the client holds
    given_image, \* image: Option of the Image handed to image::psd_data
    given_layer, \* layer: Option of the Layer the client holds
    call        \* channel, image, layer: the last calls and their results, the
                \* latest first; none before the first call

\* the variables of the specifications of one channel, image or layer
unitVars == <<color_channel, given_image, given_layer, call>>

vars == <<source, encoded, doc, out, outDoc, prev, prevDoc, unitVars>>

(***************************************************************************)
(* Bounds of the model.                                                    *)
(***************************************************************************)
\* longest prefix and suffix put around the long middle part of an rle input
MaxEdge == 2
\* the long middle part of an rle input is within Slack of a packet limit
Slack == 2
\* most layers (image layers and groups, at any depth) in a document
MaxNodes == 3
\* most bytes in the plane of a channel
MaxPlane == 6
\* greatest image_height a channel is encoded with
MaxHeight == 4
\* greatest width and height of an image handed to image::psd_data
MaxImageWidth == 3
MaxImageHeight == 2
MaxChildren == 2
MaxName == 3

(***************************************************************************)
(* Bytes and integers of fixed width.                                      *)
(***************************************************************************)
U8(n) == n % 256

RECURSIVE BEBytes(_, _)
BEBytes(v, n) ==
    IF n = 0 THEN <<>> ELSE Append(BEBytes(v \div 256, n - 1), v % 256)

\* write_be of an n-byte integer: big endian, two's complement (the bytes of
\* a negative v are the complemented bytes of -v - 1)
WriteBE(v, n) ==
    IF v >= 0 THEN BEBytes(v, n)
    ELSE [i \in 1..n |-> 255 - BEBytes(-v - 1, n)[i]]

Zeros(n) == [i \in 1..n |-> 0]

RECURSIVE Concat(_)
Concat(ss) ==
    IF Len(ss) = 0 THEN <<>>
    ELSE IF Len(ss) = 1 THEN ss[1]
    ELSE Concat(SubSeq(ss, 1, Len(ss) \div 2))
             \o Concat(SubSeq(ss, (Len(ss) \div 2) + 1, Len(ss)))

(***************************************************************************)
(* rle.rs: the PackBits encoder.                                           *)
(***************************************************************************)
\* the longest repeat the encoder counts (rle.rs:16)
RepeatLimit == 128
\* the length at which a pending literal run is flushed (rle.rs:42)
LiteralLimit == 128
\* the repeat count at which a repeat run starts (rle.rs:25)
RepeatStart == 3

\* the count without the limit of 128 on a repeat
RepeatCountUncapped(byte, previous_byte, repeat_count, previous_repeat_count) ==
    IF previous_byte = <<byte>> THEN repeat_count + 1 ELSE 1

\* rle.rs:16-20
NextRepeatCount(byte, previous_byte, repeat_count, previous_repeat_count) ==
    IF previous_byte = <<byte>> /\ previous_repeat_count # RepeatLimit
    THEN repeat_count + 1
    ELSE 1

\* rle.rs:34-35, 43-44, 69-70: header (len - 1) as u8, then the bytes
LiteralPacket(run) == <<U8(Len(run) - 1)>> \o run

\* the header one too low
RepeatPacketShort(count, byte) == <<U8(255 - (count - 1)), byte>>

\* rle.rs:55-56, 64-65: header u8::MAX - (count - 1) + 1, then the byte
RepeatPacket(count, byte) == <<U8(255 - (count - 1) + 1), byte>>

\* the truncation off by one
DropLastTwo(run) ==
    IF Len(run) >= 2 THEN SubSeq(run, 1, Len(run) - 2) ELSE <<>>

\* rle.rs:26-32: drop the last 3 elements
DropLastThree(run) ==
    IF Len(run) >= 3 THEN SubSeq(run, 1, Len(run) - 3) ELSE <<>>

\* The encoder's loop variables before the first iteration (rle.rs:5-10).
EncoderStart ==
    [output |-> <<>>, repeat_count |-> 0, non_repeating_run |-> <<>>,
     previous_byte |-> <<>>, previous_repeat_count |-> 0, broke |-> FALSE]

\* rle.rs:16-22: count the byte and push it on the run
CountByte(st, byte) ==
    [st EXCEPT
        !.repeat_count = NextRepeatCount(byte, st.previous_byte,
                                         st.repeat_count,
                                         st.previous_repeat_count),
        !.non_repeating_run = Append(@, byte)]

\* the run without the bytes of the repeat, flushed unless empty
FlushCut(st, cut) ==
    [st EXCEPT
        !.output = IF cut # <<>> THEN @ \o LiteralPacket(cut) ELSE @,
        !.non_repeating_run = <<>>]

\* rle.rs:25-38: ending a non-repeating run due to too many repeats
EndRunForRepeat(st) ==
    IF st.repeat_count = RepeatStart
    THEN FlushCut(st, DropLastThree(st.non_repeating_run))
    ELSE st

\* rle.rs:42-47: ending a non-repeating run because it got too long
EndRunForLength(st) ==
    IF Len(st.non_repeating_run) = LiteralLimit
    THEN [st EXCEPT !.output = @ \o LiteralPacket(st.non_repeating_run),
                    !.non_repeating_run = <<>>,
                    !.repeat_count = 0]
    ELSE st

\* rle.rs:51-58: ending a repeating run because the value stopped repeating
EndRepeat(st, byte) ==
    IF st.previous_repeat_count > 2 /\ st.repeat_count = 1
    THEN IF st.previous_byte = <<>> THEN [st EXCEPT !.broke = TRUE]
         ELSE [st EXCEPT
                 !.output = @ \o RepeatPacket(st.previous_repeat_count,
                                              Head(st.previous_byte)),
                 !.non_repeating_run = <<byte>>]
    ELSE st

\* the end of the data with a final repeat of two written as a repeat
EndOfDataRepeatTwo(st, byte, is_end) ==
    IF st.broke \/ ~is_end THEN st
    ELSE IF st.repeat_count >= 2
    THEN [st EXCEPT !.output = @ \o DropLastTwo(st.non_repeating_run)
                                 \o <<U8(255 - (st.repeat_count - 1) + 1), byte>>]
    ELSE IF st.non_repeating_run # <<>>
    THEN [st EXCEPT !.output = @ \o LiteralPacket(st.non_repeating_run),
                    !.non_repeating_run = <<>>]
    ELSE st

\* rle.rs:61-72: the end of the data
EndOfData(st, byte, is_end) ==
    IF st.broke \/ ~is_end THEN st
    ELSE IF st.repeat_count >= 3
    THEN [st EXCEPT !.output = @ \o RepeatPacket(st.repeat_count, byte)]
    ELSE IF st.non_repeating_run # <<>>
    THEN [st EXCEPT !.output = @ \o LiteralPacket(st.non_repeating_run),
                    !.non_repeating_run = <<>>]
    ELSE st

\* rle.rs:74-75
Remember(st, byte) ==
    IF st.broke THEN st
    ELSE [st EXCEPT !.previous_byte = <<byte>>,
                    !.previous_repeat_count = st.repeat_count]

\* One iteration of the loop (rle.rs:12-76).
EncodeByte(st, byte, is_end) ==
    Remember(
        EndOfData(
            EndRepeat(EndRunForLength(EndRunForRepeat(CountByte(st, byte))),
                      byte),
            byte, is_end),
        byte)

RECURSIVE EncodeFrom(_, _, _)
EncodeFrom(src, index, st) ==
    IF index > Len(src) \/ st.broke THEN st
    ELSE EncodeFrom(src, index + 1, EncodeByte(st, src[index], index = Len(src)))

\* rle::encoded (rle.rs:4-79)
Encoded(src) == EncodeFrom(src, 1, EncoderStart).output

(***************************************************************************)
(* The inputs of the rle specification: a short prefix, a middle part that *)
(* is empty, short, or about as long as one or two packets, and a short    *)
(* suffix.  The encoder only compares neighbouring bytes, so two byte      *)
(* values give every pattern of equal and unequal neighbours; 0x80 is one  *)
(* of them because it is the header PackBits forbids.                      *)
(***************************************************************************)
RleBytes == {0, 128}

OtherByte(b) == CHOOSE c \in RleBytes : c # b

Run(b, n) == [i \in 1..n |-> b]

Alternating(b, n) == [i \in 1..n |-> IF i % 2 = 1 THEN b ELSE OtherByte(b)]

EdgeParts == UNION {[1..n -> RleBytes] : n \in 0..MaxEdge}

MiddleLengths ==
    (1..(RepeatStart + Slack))
        \cup ((RepeatLimit - Slack)..(RepeatLimit + RepeatStart + Slack))
        \cup ((2 * RepeatLimit - 1)..(2 * RepeatLimit + Slack))

MiddleParts ==
    {<<>>} \cup {Run(b, n) : b \in RleBytes, n \in MiddleLengths}
           \cup {Alternating(b, n) : b \in RleBytes, n \in MiddleLengths}

RleInputs == {a \o m \o z : a \in EdgeParts, m \in MiddleParts, z \in EdgeParts}

(***************************************************************************)
(* The document placeholder of the rle specification.                      *)
(***************************************************************************)
NoDoc == <<>>

RleInit ==
    /\ source \in RleInputs
    /\ encoded = <<>>
    /\ doc = NoDoc
    /\ out = <<>>
    /\ outDoc = <<>>
    /\ prev = <<>>
    /\ prevDoc = <<>>
    /\ color_channel = <<>>
    /\ given_image = <<>>
    /\ given_layer = <<>>
    /\ call = <<>>

\* a call of rle::encoded(source)
RleEncode ==
    /\ encoded = <<>>
    /\ encoded' = <<Encoded(source)>>
    /\ UNCHANGED <<source, doc, out, outDoc, prev, prevDoc, unitVars>>

RleNext == RleEncode

SpecRle == RleInit /\ [][RleNext]_vars

(***************************************************************************)
(* A standard PackBits decoder (Apple TN1023): header h in 0..127 copies   *)
(* the next h + 1 bytes, h in 129..255 repeats the next byte 257 - h       *)
(* times, h = 128 is skipped.  ok is FALSE when a packet is cut short.     *)
(***************************************************************************)
RECURSIVE DecodeFrom(_, _, _)
DecodeFrom(bytes, i, acc) ==
    IF i > Len(bytes) THEN [ok |-> TRUE, data |-> acc]
    ELSE LET h == bytes[i]
         IN  IF h < 128
             THEN IF i + h + 1 > Len(bytes) THEN [ok |-> FALSE, data |-> acc]
                  ELSE DecodeFrom(bytes, i + h + 2,
                                  acc \o SubSeq(bytes, i + 1, i + h + 1))
             ELSE IF h = 128 THEN DecodeFrom(bytes, i + 1, acc)
             ELSE IF i + 1 > Len(bytes) THEN [ok |-> FALSE, data |-> acc]
                  ELSE DecodeFrom(bytes, i + 2,
                                  acc \o [k \in 1..(257 - h) |-> bytes[i + 1]])

Decoded(bytes) == DecodeFrom(bytes, 1, <<>>)

\* The packets of a byte string, <<kind, length>> each, read from the left;
\* a last entry "bad" when what is left is no literal packet of 1..128 bytes
\* and no repeat packet of 3..128 bytes.
RECURSIVE PacketsFrom(_, _)
PacketsFrom(bytes, i) ==
    IF i > Len(bytes) THEN <<>>
    ELSE LET h == bytes[i]
         IN  IF h <= 127 /\ i + h + 1 <= Len(bytes)
             THEN <<(<<"literal", h + 1>>)>> \o PacketsFrom(bytes, i + h + 2)
             ELSE IF h >= 129 /\ 257 - h >= 3 /\ i + 1 <= Len(bytes)
             THEN <<(<<"repeat", 257 - h>>)>> \o PacketsFrom(bytes, i + 2)
             ELSE <<(<<"bad", h>>)>>

Packets(bytes) == PacketsFrom(bytes, 1)

HasPacket(bytes, kind) ==
    \E k \in 1..Len(Packets(bytes)) : Packets(bytes)[k][1] = kind

\* C1: RLE round-trip: decoding rle::encoded(S) with a standard PackBits
\* decoder yields exactly S, for every input S, the empty one included.
C1_RoundTrip ==
    encoded # <<>> =>
        /\ Decoded(Head(encoded)).ok
        /\ Decoded(Head(encoded)).data = source

\* An input longer than two full packets was encoded into literal and repeat
\* packets and decoded back.
C1_Witness ==
    /\ encoded # <<>>
    /\ Len(source) > 2 * RepeatLimit
    /\ HasPacket(Head(encoded), "literal")
    /\ HasPacket(Head(encoded), "repeat")
    /\ Decoded(Head(encoded)).data = source

\* C2: RLE output grammar: rle::encoded(S) parses completely as literal
\* packets of 1..128 bytes (header n - 1) and repeat packets of 3..128 bytes
\* (header 257 - n); 0x80 is never a packet header.
C2_Grammar ==
    encoded # <<>> =>
        \A k \in 1..Len(Packets(Head(encoded))) :
            LET p == Packets(Head(encoded))[k]
            IN  /\ p[1] \in {"literal", "repeat"}
                /\ p[1] = "literal" => p[2] \in 1..128
                /\ p[1] = "repeat" => p[2] \in 3..128

\* A run of more than 128 bytes 0x80 was encoded: a repeat packet of the
\* full 128 bytes (header 0x81) is in the output, 0x80 only as a data byte.
C2_Witness ==
    /\ encoded # <<>>
    /\ \E k \in 1..Len(Packets(Head(encoded))) :
           Packets(Head(encoded))[k] = <<"repeat", 128>>
    /\ \E i \in 1..Len(Head(encoded)) : Head(encoded)[i] = 128
    /\ Len(source) > RepeatLimit

(***************************************************************************)
(* C11, C12: runs of one byte, and inputs without a run of three.          *)
(***************************************************************************)
\* source is length copies of one byte
IsRun(bytes) ==
    bytes # <<>> /\ \A i \in 1..Len(bytes) : bytes[i] = bytes[1]

\* what is written for n copies of b: a packet 0x81 b for each 128 of them,
\* then the rest r: nothing, a literal packet, or the packet (257 - r, b)
RunPackets(n, b) ==
    Concat([k \in 1..(n \div 128) |-> <<129, b>>])
        \o (IF n % 128 = 0 THEN <<>>
            ELSE IF n % 128 <= 2 THEN <<(n % 128) - 1>> \o Run(b, n % 128)
            ELSE <<257 - (n % 128), b>>)

\* C11: for n >= 1 copies of one byte b, rle::encoded gives n div 128
\* packets 0x81 b and then, for r = n mod 128, nothing if r = 0, a literal
\* packet of r bytes if r is 1 or 2, the repeat packet (257 - r, b) if
\* r >= 3.
C11_LongRuns ==
    encoded # <<>> /\ IsRun(source) =>
        Head(encoded) = RunPackets(Len(source), source[1])

\* 129 copies of a byte were encoded as 81 b 00 b
C11_Witness ==
    /\ encoded # <<>>
    /\ IsRun(source)
    /\ Len(source) = RepeatLimit + 1
    /\ Head(encoded) = <<129, source[1], 0, source[1]>>

\* no three neighbours of bytes are equal
NoRunOfThree(bytes) ==
    \A i \in 1..(Len(bytes) - 2) :
        ~(bytes[i] = bytes[i + 1] /\ bytes[i + 1] = bytes[i + 2])

\* bytes cut into chunks of 128, each under the header (its length - 1)
RECURSIVE LiteralChunks(_)
LiteralChunks(bytes) ==
    IF bytes = <<>> THEN <<>>
    ELSE IF Len(bytes) <= 128 THEN <<Len(bytes) - 1>> \o bytes
    ELSE <<127>> \o SubSeq(bytes, 1, 128)
             \o LiteralChunks(SubSeq(bytes, 129, Len(bytes)))

\* C12: an input without three consecutive equal bytes is encoded as
\* literal packets only, the input cut into chunks of 128 bytes, each under
\* the header (chunk length - 1).
C12_TwoIsLiteral ==
    encoded # <<>> /\ NoRunOfThree(source) =>
        Head(encoded) = LiteralChunks(source)

\* an input of more than 128 bytes with runs of two and no run of three
C12_Witness ==
    /\ encoded # <<>>
    /\ NoRunOfThree(source)
    /\ Len(source) > LiteralLimit
    /\ \E i \in 1..(Len(source) - 1) : source[i] = source[i + 1]
    /\ Head(encoded) = LiteralChunks(source)

(***************************************************************************)
(* Values of the external graphics crate: rectangles and images.           *)
(***************************************************************************)
\* Rect::zero()
ZeroRect == [x |-> 0, y |-> 0, width |-> 0, height |-> 0]

\* Image::empty(size): a fully transparent RGBA image
ImageEmpty(width, height) ==
    [size |-> [width |-> width, height |-> height],
     bytes_per_row |-> 4 * width,
     data |-> Zeros(4 * width * height)]

(***************************************************************************)
(* The enumerations' raw values.                                           *)
(***************************************************************************)
\* ColorChannelType::raw_value
ChannelTypeRawValue(color_type) ==
    CASE color_type = "Red" -> 0
      [] color_type = "Green" -> 1
      [] color_type = "Blue" -> 2
      [] color_type = "Alpha" -> -1

\* ImageCompression::raw_value
CompressionRawValue(compression) ==
    CASE compression = "RawData" -> 0
      [] compression = "Rle" -> 1
      [] compression = "ZipWithoutPrediction" -> 2
      [] compression = "ZipWithPrediction" -> 3

\* ColorMode::raw_value
ColorModeRawValue(color_mode) ==
    CASE color_mode = "Bitmap" -> 0
      [] color_mode = "Grayscale" -> 1
      [] color_mode = "Indexed" -> 2
      [] color_mode = "Rgb" -> 3
      [] color_mode = "Cmyk" -> 4
      [] color_mode = "Multichannel" -> 7
      [] color_mode = "Duotone" -> 8
      [] color_mode = "Lab" -> 9

\* BlendMode::as_str, as bytes
BlendModeTag(blend_mode) ==
    CASE blend_mode = "Normal" -> <<110, 111, 114, 109>>
      [] blend_mode = "PassThrough" -> <<112, 97, 115, 115>>

\* document::constants::FILE_SIGNATURE, "8BPS"
FILE_SIGNATURE == <<56, 66, 80, 83>>

\* document::constants::RESOURCE_SIGNATURE, "8BIM"
RESOURCE_SIGNATURE == <<56, 66, 73, 77>>

\* resource_identifiers
RESOLUTION_INFORMATION == 1005
LAYER_STATE == 1024
LAYERS_GROUP_INFORMATION == 1026

(***************************************************************************)
(* data.rs and string/: padding and the two forms of a layer name.  A name *)
(* is a sequence of Unicode code points below 0x10000.                    *)
(***************************************************************************)
\* no padding at all
PadNot(data, number_of_bytes) == data

\* data::pad
Pad(data, number_of_bytes) ==
    data \o Zeros((number_of_bytes - (Len(data) % number_of_bytes)) % number_of_bytes)

\* String::as_bytes: UTF-8
Utf8Char(c) ==
    IF c < 128 THEN <<c>>
    ELSE IF c < 2048 THEN <<192 + (c \div 64), 128 + (c % 64)>>
    ELSE <<224 + (c \div 4096), 128 + ((c \div 64) % 64), 128 + (c % 64)>>

Utf8(string) == Concat([i \in 1..Len(string) |-> Utf8Char(string[i])])

\* string::pascal::data_from_string
PascalDataFromString(name) ==
    IF name = <<>> THEN <<0, 0>>
    ELSE <<U8(Len(Utf8(Head(name))))>> \o Utf8(Head(name))

\* string::unicode::data_from_string
UnicodeDataFromString(name) ==
    LET string == IF name = <<>> THEN <<>> ELSE Head(name)
        units  == WriteBE(Len(string), 4)
                      \o Concat([i \in 1..Len(string) |-> WriteBE(string[i], 2)])
    IN  RESOURCE_SIGNATURE \o <<108, 117, 110, 105>>
            \o WriteBE(Len(units), 4) \o units

(***************************************************************************)
(* color_channel.rs                                                        *)
(***************************************************************************)
\* ColorChannel::new
ColorChannelNew(color_type, data_length) ==
    [color_type |-> color_type, data_length |-> data_length,
     data |-> Zeros(data_length), compressed_data |-> <<>>]

\* the plane encoded as one row, the other rows empty
EncodedRowsJoined(data, bytes_per_row, y, image_height) ==
    <<Encoded(SubSeq(data, 1, bytes_per_row * image_height))>>
        \o [k \in 1..(image_height - 1) |-> <<>>]

\* the rows of rle_encoded_components, each encoded (color_channel.rs:94-101)
RECURSIVE EncodedRows(_, _, _, _)
EncodedRows(data, bytes_per_row, y, image_height) ==
    IF y >= image_height THEN <<>>
    ELSE <<Encoded(SubSeq(data, y * bytes_per_row + 1,
                          y * bytes_per_row + bytes_per_row))>>
             \o EncodedRows(data, bytes_per_row, y + 1, image_height)

\* the line lengths in one byte each
ComponentsOfRowsShort(rows) ==
    [ok |-> TRUE, error |-> "",
     line_lengths |-> Concat([y \in 1..Len(rows) |-> WriteBE(Len(rows[y]), 1)]),
     data |-> Concat(rows)]

\* the line lengths and the data of the encoded rows
\* (color_channel.rs:103-112)
ComponentsOfRows(rows) ==
    [ok |-> TRUE, error |-> "",
     line_lengths |-> Concat([y \in 1..Len(rows) |-> WriteBE(Len(rows[y]), 2)]),
     data |-> Concat(rows)]

\* the components without the check of the height
RleEncodedComponentsLenient(channel, image_height) ==
    ComponentsOfRows(
        EncodedRows(channel.data,
                    IF image_height = 0 THEN 0
                    ELSE Len(channel.data) \div image_height,
                    0, image_height))

\* ColorChannel::rle_encoded_components
RleEncodedComponents(channel, image_height) ==
    IF image_height = 0
    THEN [ok |-> FALSE, error |-> "InvalidImage",
          line_lengths |-> <<>>, data |-> <<>>]
    ELSE ComponentsOfRows(
             EncodedRows(channel.data, Len(channel.data) \div image_height,
                         0, image_height))

\* color_channel.rs:79-81
JoinComponents(result) ==
    [ok |-> result.ok, error |-> result.error,
     data |-> result.line_lengths \o result.data]

\* ColorChannel::rle_encoded_data
RleEncodedData(channel, image_height) ==
    JoinComponents(RleEncodedComponents(channel, image_height))

\* color_channel.rs:67-72: the error passed on, or the cache populated
CacheCompressed(channel, encoded_data) ==
    IF ~encoded_data.ok
    THEN [ok |-> FALSE, error |-> encoded_data.error, data |-> <<>>,
          compression |-> "Rle", self |-> channel]
    ELSE [ok |-> TRUE, error |-> "", data |-> encoded_data.data,
          compression |-> "Rle",
          self |-> [channel EXCEPT !.compressed_data = <<encoded_data.data>>]]

\* compressed_data with only planes of less than 2 bytes left raw
CompressedDataOverOne(channel, image_height) ==
    IF Len(channel.data) < 2
    THEN [ok |-> TRUE, error |-> "", data |-> channel.data,
          compression |-> "RawData", self |-> channel]
    ELSE IF channel.compressed_data # <<>>
    THEN [ok |-> TRUE, error |-> "", data |-> Head(channel.compressed_data),
          compression |-> "Rle", self |-> channel]
    ELSE CacheCompressed(channel, RleEncodedData(channel, image_height))

\* compressed_data encoding again at every call
CompressedDataEncodingAgain(channel, image_height) ==
    IF Len(channel.data) <= 2
    THEN [ok |-> TRUE, error |-> "", data |-> channel.data,
          compression |-> "RawData", self |-> channel]
    ELSE CacheCompressed(channel, RleEncodedData(channel, image_height))

\* ColorChannel::compressed_data: the result, and the channel afterwards
CompressedData(channel, image_height) ==
    IF Len(channel.data) <= 2
    THEN [ok |-> TRUE, error |-> "", data |-> channel.data,
          compression |-> "RawData", self |-> channel]
    ELSE IF channel.compressed_data # <<>>
    THEN [ok |-> TRUE, error |-> "", data |-> Head(channel.compressed_data),
          compression |-> "Rle", self |-> channel]
    ELSE CacheCompressed(channel, RleEncodedData(channel, image_height))

(***************************************************************************)
(* layer.rs: a layer is a record; layers holds the children of a group     *)
(* (GroupInfo.layers) and is empty for an image layer.  An operation       *)
(* taking &mut self gives its result (kind "Ok" or "Panic") and self, the  *)
(* layer afterwards.  A loop is an operator over the loop's variables      *)
(* (acc) and its index, its body an operator of its own.                   *)
(***************************************************************************)
\* Layer::new
LayerNew(bounds) ==
    [layer_type |-> "Image", layers |-> <<>>, bounds |-> bounds,
     number_of_channels |-> 4, channels |-> <<>>, blend_mode |-> "Normal",
     opacity |-> 255, is_hidden |-> FALSE, name |-> <<>>, image |-> <<>>,
     additional_layer_information |-> <<>>, divider_type |-> "Other"]

\* Layer::group
LayerGroup(child_layers, is_open) ==
    [layer_type |-> "Group", layers |-> child_layers, bounds |-> ZeroRect,
     number_of_channels |-> 4, channels |-> <<>>, blend_mode |-> "Normal",
     opacity |-> 255, is_hidden |-> FALSE, name |-> <<>>, image |-> <<>>,
     additional_layer_information |-> <<>>,
     divider_type |-> IF is_open THEN "OpenFolder" ELSE "ClosedFolder"]

\* the index for rows without padding
SourceIndexPacked(image, target_index, c) == (target_index * 4) + c

\* the index (from 0) in image.data of component c of the pixel that goes
\* to target_index (layer.rs:131-136, image.rs:29-34)
SourceIndex(image, target_index, c) ==
    ((target_index \div image.size.width) * image.bytes_per_row)
        + ((target_index % image.size.width) * 4) + c

\* the plane of component c (0 red, 1 green, 2 blue, 3 alpha)
Plane(image, c) ==
    [i \in 1..(image.size.width * image.size.height) |->
        image.data[SourceIndex(image, i - 1, c) + 1]]

\* no index of the de-interleaving loop is out of range
PlanesInRange(image) ==
    \A i \in 1..(image.size.width * image.size.height) :
        SourceIndex(image, i - 1, 3) < Len(image.data)

ChannelOf(image, color_type, c) ==
    [color_type |-> color_type,
     data_length |-> image.size.width * image.size.height,
     data |-> Plane(image, c), compressed_data |-> <<>>]

\* layer.rs:109-141: the image unwrapped and de-interleaved
ChannelsFromImage(layer, image) ==
    IF image = <<>> THEN [panic |-> TRUE, self |-> layer]
    ELSE IF ~PlanesInRange(Head(image))
    THEN [panic |-> TRUE, self |-> [layer EXCEPT !.image = image]]
    ELSE [panic |-> FALSE,
          self |-> [layer EXCEPT
                      !.image = image,
                      !.channels = <<ChannelOf(Head(image), "Alpha", 3),
                                     ChannelOf(Head(image), "Red", 0),
                                     ChannelOf(Head(image), "Green", 1),
                                     ChannelOf(Head(image), "Blue", 2)>>]]

\* Layer::update_channel_data
UpdateChannelData(layer) ==
    IF layer.layer_type = "Group" THEN [panic |-> FALSE, self |-> layer]
    ELSE ChannelsFromImage(layer,
             IF layer.image = <<>> /\ layer.bounds # ZeroRect
             THEN <<ImageEmpty(layer.bounds.width, layer.bounds.height)>>
             ELSE layer.image)

\* the channels are populated when there are none (layer.rs:159-161, 221-223)
WithChannels(layer) ==
    IF layer.channels = <<>> THEN UpdateChannelData(layer)
    ELSE [panic |-> FALSE, self |-> layer]

\* the variables of a loop over the channels; skipped counts the channels
\* whose compression failed
ChannelsStart(channels) ==
    [bytes |-> <<>>, channels |-> channels, skipped |-> 0]

\* the body of the loop of layer_encoded_image (layer.rs:164-168): a channel
\* whose compression fails is skipped
EncodeChannel(acc, i, compressed) ==
    IF ~compressed.ok THEN [acc EXCEPT !.skipped = @ + 1]
    ELSE [acc EXCEPT
            !.bytes = @ \o WriteBE(CompressionRawValue(compressed.compression), 2)
                        \o compressed.data,
            !.channels[i] = compressed.self]

\* the loop of layer_encoded_image (layer.rs:163-169)
RECURSIVE EncodeChannels(_, _, _)
EncodeChannels(acc, i, height) ==
    IF i > Len(acc.channels) THEN acc
    ELSE EncodeChannels(
             EncodeChannel(acc, i, CompressedData(acc.channels[i], height)),
             i + 1, height)

\* layer.rs:171: blocks lists what the bytes hold: the channel data of which
\* layer (rel, its path below the layer called), encoded with which bounds
ImageResult(layer, encoded_channels) ==
    [kind |-> "Ok", bytes |-> encoded_channels.bytes,
     self |-> [layer EXCEPT !.channels = encoded_channels.channels],
     blocks |-> <<[kind |-> "image", rel |-> <<>>, bounds |-> layer.bounds,
                   skipped |-> encoded_channels.skipped,
                   bytes |-> encoded_channels.bytes]>>]

\* layer.rs:163-171
EncodedImageOf(updated) ==
    IF updated.panic
    THEN [kind |-> "Panic", bytes |-> <<>>, self |-> updated.self,
          blocks |-> <<>>]
    ELSE ImageResult(updated.self,
                     EncodeChannels(ChannelsStart(updated.self.channels), 1,
                                    updated.self.bounds.height))

\* Layer::layer_encoded_image
LayerEncodedImage(layer) == EncodedImageOf(WithChannels(layer))

Rebase(blocks, i) ==
    [k \in 1..Len(blocks) |-> [blocks[k] EXCEPT !.rel = <<i>> \o @]]

\* the zero written for each channel (layer.rs:179-181, 189-191)
ChannelZeros(number_of_channels) ==
    IF number_of_channels > 0 THEN Zeros(2 * number_of_channels) ELSE <<>>

\* the body of the loop over the children of a group (layer.rs:185)
AppendChild(acc, i, image) ==
    IF image.kind # "Ok"
    THEN [kind |-> image.kind, bytes |-> <<>>, blocks |-> <<>>]
    ELSE [kind |-> "Ok", bytes |-> acc.bytes \o image.bytes,
          blocks |-> acc.blocks \o Rebase(image.blocks, i)]

RECURSIVE EncodedImage(_)
\* the loop over the children of a group (layer.rs:184-186)
RECURSIVE EncodeChildren(_, _, _)
EncodeChildren(layers, i, acc) ==
    IF i > Len(layers) \/ acc.kind # "Ok" THEN acc
    ELSE EncodeChildren(layers, i + 1,
                        AppendChild(acc, i, EncodedImage(layers[i])))

\* the zeros at the end of the folder left out
GroupImageResultUnclosed(layer, zeros, children) ==
    IF children.kind # "Ok"
    THEN [kind |-> children.kind, bytes |-> <<>>, self |-> layer,
          blocks |-> <<>>]
    ELSE [kind |-> "Ok", bytes |-> zeros \o children.bytes, self |-> layer,
          blocks |-> <<[kind |-> "marker", rel |-> <<>>,
                        bounds |-> layer.bounds, skipped |-> 0,
                        bytes |-> zeros]>>
                     \o children.blocks]

\* layer.rs:176-193: the zeros of the marker, the children, the zeros of the
\* group
GroupImageResult(layer, zeros, children) ==
    IF children.kind # "Ok"
    THEN [kind |-> children.kind, bytes |-> <<>>, self |-> layer,
          blocks |-> <<>>]
    ELSE [kind |-> "Ok", bytes |-> zeros \o children.bytes \o zeros,
          self |-> layer,
          blocks |-> <<[kind |-> "marker", rel |-> <<>>,
                        bounds |-> layer.bounds, skipped |-> 0,
                        bytes |-> zeros]>>
                     \o children.blocks
                     \o <<[kind |-> "opener", rel |-> <<>>,
                           bounds |-> layer.bounds, skipped |-> 0,
                           bytes |-> zeros]>>]

\* Layer::group_encoded_image: the children encoded are those of a clone of
\* the group's info (layer.rs:150-152), so self is unchanged
GroupEncodedImage(layer) ==
    GroupImageResult(layer, ChannelZeros(layer.number_of_channels),
                     EncodeChildren(layer.layers, 1,
                         [kind |-> "Ok", bytes |-> <<>>, blocks |-> <<>>]))

\* Layer::encoded_image
EncodedImage(layer) ==
    IF layer.layer_type = "Image" THEN LayerEncodedImage(layer)
    ELSE GroupEncodedImage(layer)

\* the body of the loop of layer_record_data (layer.rs:227-233): the type
\* code of the channel, and its size unless its compression fails
ChannelEntry(acc, i, compressed) ==
    IF ~compressed.ok
    THEN [acc EXCEPT
            !.skipped = @ + 1,
            !.bytes = @ \o WriteBE(ChannelTypeRawValue(acc.channels[i].color_type), 2)]
    ELSE [acc EXCEPT
            !.bytes = @ \o WriteBE(ChannelTypeRawValue(acc.channels[i].color_type), 2)
                        \o WriteBE(Len(compressed.data) + 2, 4),
            !.channels[i] = compressed.self]

\* the loop of layer_record_data (layer.rs:226-234)
RECURSIVE ChannelEntries(_, _, _)
ChannelEntries(acc, i, height) ==
    IF i > Len(acc.channels) THEN acc
    ELSE ChannelEntries(
             ChannelEntry(acc, i, CompressedData(acc.channels[i], height)),
             i + 1, height)

\* the extra data of a layer record (layer.rs:255-272)
ExtraData(layer) ==
    WriteBE(0, 4) \o WriteBE(0, 4)
        \o Pad(PascalDataFromString(layer.name), 4)
        \o UnicodeDataFromString(layer.name)
        \o (IF layer.additional_layer_information = <<>> THEN <<>>
            ELSE Head(layer.additional_layer_information))

\* the bytes of the record (layer.rs:207-277)
RecordResult(layer, entries, extra) ==
    [kind |-> "Ok",
     bytes |-> WriteBE(layer.bounds.y, 4) \o WriteBE(layer.bounds.x, 4)
         \o WriteBE(layer.bounds.y + layer.bounds.height, 4)
         \o WriteBE(layer.bounds.x + layer.bounds.width, 4)
         \o WriteBE(layer.number_of_channels, 2)
         \o entries.bytes
         \o RESOURCE_SIGNATURE \o BlendModeTag(layer.blend_mode)
         \o <<layer.opacity, 0, IF layer.is_hidden THEN 2 ELSE 0, 0>>
         \o WriteBE(Len(extra), 4) \o extra,
     self |-> [layer EXCEPT !.channels = entries.channels],
     skipped |-> entries.skipped]

\* layer.rs:221-277
RecordOf(updated) ==
    IF updated.panic
    THEN [kind |-> "Panic", bytes |-> <<>>, self |-> updated.self,
          skipped |-> 0]
    ELSE RecordResult(updated.self,
                      ChannelEntries(ChannelsStart(updated.self.channels), 1,
                                     updated.self.bounds.height),
                      ExtraData(updated.self))

\* Layer::layer_record_data
LayerRecordData(layer) == RecordOf(WithChannels(layer))

(***************************************************************************)
(* layer/group.rs and the records of a group (layer.rs:197-202, 281-298).  *)
(***************************************************************************)
\* layer/group/constants.rs: "lsct"
SECTION_DIVIDER_KEY == <<108, 115, 99, 116>>

\* DividerType as u32
DividerTypeRawValue(divider_type) ==
    CASE divider_type = "Other" -> 0
      [] divider_type = "OpenFolder" -> 1
      [] divider_type = "ClosedFolder" -> 2
      [] divider_type = "SectionDivider" -> 3

\* "</Layer group>"
GroupMarkerName == <<60, 47, 76, 97, 121, 101, 114, 32, 103, 114, 111, 117, 112, 62>>

\* the channels of the marker with the alpha channel last
GroupMarkerChannelsAlphaLast ==
    <<ColorChannelNew("Red", 0), ColorChannelNew("Green", 0),
      ColorChannelNew("Blue", 0), ColorChannelNew("Alpha", 0)>>

\* the channels of the marker (group.rs:41-51)
GroupMarkerChannels ==
    <<ColorChannelNew("Alpha", 0), ColorChannelNew("Red", 0),
      ColorChannelNew("Green", 0), ColorChannelNew("Blue", 0)>>

\* the additional layer information of the marker (group.rs:54-59)
SectionDividerInformation ==
    RESOURCE_SIGNATURE \o SECTION_DIVIDER_KEY \o WriteBE(4, 4)
        \o WriteBE(DividerTypeRawValue("SectionDivider"), 4)

\* Layer::group_marker
GroupMarker ==
    [LayerNew(ZeroRect) EXCEPT
        !.channels = GroupMarkerChannels,
        !.name = <<GroupMarkerName>>,
        !.additional_layer_information = <<SectionDividerInformation>>]

\* records lists the records the bytes hold: of which layer (rel, its path
\* below the layer called), written with which bounds
RecordBlock(kind, record) ==
    [kind |-> kind, rel |-> <<>>, bounds |-> record.self.bounds,
     skipped |-> record.skipped, bytes |-> record.bytes]

\* record_data() on an image layer (layer.rs:199)
ImageRecordData(record) ==
    [kind |-> record.kind, bytes |-> record.bytes, self |-> record.self,
     records |-> IF record.kind = "Ok" THEN <<RecordBlock("image", record)>>
                 ELSE <<>>]

\* layer.rs:288-290: a child without bounds takes the bounds of the group
InGroup(child, bounds) ==
    IF child.bounds = ZeroRect THEN [child EXCEPT !.bounds = bounds]
    ELSE child

\* the body of the loop over the children of a group (layer.rs:291-292)
AppendChildRecord(acc, i, record) ==
    IF record.kind # "Ok"
    THEN [kind |-> record.kind, bytes |-> <<>>, records |-> <<>>]
    ELSE [kind |-> "Ok", bytes |-> acc.bytes \o record.bytes,
          records |-> acc.records \o Rebase(record.records, i)]

RECURSIVE RecordData(_)
\* the loop over the children of a group (layer.rs:286-293)
RECURSIVE RecordChildren(_, _, _, _)
RecordChildren(layers, i, bounds, acc) ==
    IF i > Len(layers) \/ acc.kind # "Ok" THEN acc
    ELSE RecordChildren(layers, i + 1, bounds,
             AppendChildRecord(acc, i, RecordData(InGroup(layers[i], bounds))))

\* layer.rs:282-283: the record of the marker starts the data
MarkerStart(marker) ==
    [kind |-> marker.kind, bytes |-> marker.bytes,
     records |-> <<RecordBlock("marker", marker)>>]

\* the record of the group itself put before the marker and the children
GroupRecordResultOpenerFirst(layer, children, opener) ==
    IF children.kind # "Ok" \/ opener.kind # "Ok"
    THEN [kind |-> IF children.kind # "Ok" THEN children.kind ELSE opener.kind,
          bytes |-> <<>>, self |-> layer, records |-> <<>>]
    ELSE [kind |-> "Ok", bytes |-> opener.bytes \o children.bytes,
          self |-> opener.self,
          records |-> <<RecordBlock("opener", opener)>> \o children.records]

\* layer.rs:295-297: the record of the group itself ends the data
GroupRecordResult(layer, children, opener) ==
    IF children.kind # "Ok" \/ opener.kind # "Ok"
    THEN [kind |-> IF children.kind # "Ok" THEN children.kind ELSE opener.kind,
          bytes |-> <<>>, self |-> layer, records |-> <<>>]
    ELSE [kind |-> "Ok", bytes |-> children.bytes \o opener.bytes,
          self |-> opener.self,
          records |-> children.records \o <<RecordBlock("opener", opener)>>]

\* Layer::group_record_data: the children recorded are those of a clone of
\* the group's info (layer.rs:198-201)
GroupRecordData(layer) ==
    GroupRecordResult(layer,
        RecordChildren(layer.layers, 1, layer.bounds,
                       MarkerStart(LayerRecordData(GroupMarker))),
        LayerRecordData(layer))

\* Layer::record_data
RecordData(layer) ==
    IF layer.layer_type = "Image" THEN ImageRecordData(LayerRecordData(layer))
    ELSE GroupRecordData(layer)

(***************************************************************************)
(* image.rs: the whole-image encoder.                                      *)
(***************************************************************************)
\* the line lengths and the data channel by channel
PsdDataRleByChannel(code, r, g, b, a) ==
    IF ~r.ok THEN [kind |-> "Err", error |-> r.error, bytes |-> <<>>]
    ELSE [kind |-> "Ok", error |-> "",
          bytes |-> code \o r.line_lengths \o r.data
              \o g.line_lengths \o g.data
              \o b.line_lengths \o b.data
              \o a.line_lengths \o a.data]

\* image.rs:38-61: the compression code, the line lengths of the four
\* channels, then their data; the first error is returned
PsdDataRle(code, r, g, b, a) ==
    IF ~r.ok THEN [kind |-> "Err", error |-> r.error, bytes |-> <<>>]
    ELSE [kind |-> "Ok", error |-> "",
          bytes |-> code \o r.line_lengths \o g.line_lengths
              \o b.line_lengths \o a.line_lengths
              \o r.data \o g.data \o b.data \o a.data]

\* psd_data without the check of the compression: the planes under
\* whatever code
PsdDataAnyCode(image, compression) ==
    IF ~PlanesInRange(image)
    THEN [kind |-> "Panic", error |-> "", bytes |-> <<>>]
    ELSE [kind |-> "Ok", error |-> "",
          bytes |-> WriteBE(CompressionRawValue(compression), 2)
              \o Plane(image, 0) \o Plane(image, 1) \o Plane(image, 2)
              \o Plane(image, 3)]

\* image::psd_data: kind "Ok" with the bytes, "Err" with the error, or "Panic"
PsdData(image, compression) ==
    IF compression \in {"ZipWithoutPrediction", "ZipWithPrediction"}
    THEN [kind |-> "Err", error |-> "UnsupportedCompression", bytes |-> <<>>]
    ELSE IF ~PlanesInRange(image)
    THEN [kind |-> "Panic", error |-> "", bytes |-> <<>>]
    ELSE IF compression = "Rle"
    THEN PsdDataRle(
             WriteBE(CompressionRawValue(compression), 2),
             RleEncodedComponents(ChannelOf(image, "Red", 0), image.size.height),
             RleEncodedComponents(ChannelOf(image, "Green", 1), image.size.height),
             RleEncodedComponents(ChannelOf(image, "Blue", 2), image.size.height),
             RleEncodedComponents(ChannelOf(image, "Alpha", 3), image.size.height))
    ELSE [kind |-> "Ok", error |-> "",
          bytes |-> WriteBE(CompressionRawValue(compression), 2)
              \o Plane(image, 0) \o Plane(image, 1) \o Plane(image, 2)
              \o Plane(image, 3)]

(***************************************************************************)
(* layer_container.rs                                                      *)
(***************************************************************************)
\* the count without the layers inside the groups
NumberOfLayersShallow(layers) ==
    Len(layers)
        + Cardinality({i \in 1..Len(layers) : layers[i].layer_type = "Group"})

RECURSIVE NumberOfLayers(_)
\* LayerContainer::number_of_layers
NumberOfLayers(layers) ==
    IF layers = <<>> THEN 0
    ELSE 1 + (IF Head(layers).layer_type = "Group"
              THEN NumberOfLayers(Head(layers).layers) + 1 ELSE 0)
           + NumberOfLayers(Tail(layers))

RECURSIVE AllLayersFrom(_, _)
AllLayersFrom(layers, i) ==
    IF i > Len(layers) THEN <<>>
    ELSE <<[path |-> <<i>>, layer |-> layers[i]]>>
           \o (IF layers[i].layer_type = "Group"
               THEN [j \in 1..Len(layers[i].layers) |->
                        [path |-> <<i, j>>, layer |-> layers[i].layers[j]]]
               ELSE <<>>)
           \o AllLayersFrom(layers, i + 1)

\* LayerContainer::all_layers of a document: each top-level layer, followed,
\* when it is a group, by the group's own children.  A reference is the path
\* of the layer in the document and the layer's value.
AllLayers(layers) == AllLayersFrom(layers, 1)

(***************************************************************************)
(* document.rs                                                             *)
(***************************************************************************)
\* Document::new
DocumentNew ==
    [number_of_channels |-> 4, size |-> [width |-> 0, height |-> 0],
     bits_per_channel |-> 1, color_mode |-> "Bitmap",
     preview_image |-> <<>>, layers |-> <<>>]

\* the header with the depth and the mode of the document
HeaderSectionOfFields(d) ==
    FILE_SIGNATURE \o WriteBE(1, 2) \o Zeros(6)
        \o WriteBE(d.number_of_channels, 2)
        \o WriteBE(d.size.height, 4) \o WriteBE(d.size.width, 4)
        \o WriteBE(d.bits_per_channel, 2)
        \o WriteBE(ColorModeRawValue(d.color_mode), 2)
        \o WriteBE(0, 4)

\* the header section (document.rs:56-77)
HeaderSection(d) ==
    FILE_SIGNATURE \o WriteBE(1, 2) \o Zeros(6)
        \o WriteBE(d.number_of_channels, 2)
        \o WriteBE(d.size.height, 4) \o WriteBE(d.size.width, 4)
        \o WriteBE(8, 2) \o WriteBE(ColorModeRawValue("Rgb"), 2)
        \o WriteBE(0, 4)

\* the hard coded resolution information (document.rs:90-93)
ResolutionInformationData ==
    <<0, 72, 0, 0, 0, 1, 0, 1, 0, 72, 0, 0, 0, 1, 0, 1>>

\* the image resources (document.rs:81-123)
ImageResources(d) ==
    RESOURCE_SIGNATURE \o WriteBE(RESOLUTION_INFORMATION, 2) \o WriteBE(0, 2)
        \o WriteBE(Len(ResolutionInformationData), 4)
        \o ResolutionInformationData
        \o RESOURCE_SIGNATURE \o WriteBE(LAYER_STATE, 2) \o WriteBE(0, 2)
        \o WriteBE(2, 4) \o WriteBE(0, 2)
        \o RESOURCE_SIGNATURE \o WriteBE(LAYERS_GROUP_INFORMATION, 2)
        \o WriteBE(0, 2)
        \o WriteBE(NumberOfLayers(d.layers) * 2, 4)
        \o Zeros(2 * NumberOfLayers(d.layers))

\* n as i16
AsI16(n) == IF n % 65536 >= 32768 THEN (n % 65536) - 65536 ELSE n % 65536

\* the layer count (document.rs:133): (n as i16) * -1
LayerCountField(d) == WriteBE(AsI16(NumberOfLayers(d.layers)) * (-1), 2)

\* zero bounds become the document's extent (document.rs:146-151)
PromoteBounds(layer, size) ==
    IF layer.bounds = ZeroRect
    THEN [layer EXCEPT !.bounds = [x |-> 0, y |-> 0, width |-> size.width,
                                   height |-> size.height]]
    ELSE layer

\* document.rs:152: the record written and the clone updated.  records
\* lists, for each record written, the layer it is of (its path), its kind
\* and the bounds in it.
AppendRecord(acc, i, record) ==
    IF record.kind # "Ok"
    THEN [kind |-> record.kind, bytes |-> <<>>, layers |-> acc.layers,
          records |-> <<>>]
    ELSE [kind |-> "Ok",
          bytes |-> acc.bytes \o record.bytes,
          layers |-> [acc.layers EXCEPT ![i].layer = record.self],
          records |-> Append(acc.records,
              [kind |-> IF record.self.layer_type = "Group"
                        THEN "opener" ELSE "image",
               path |-> acc.layers[i].path,
               bounds |-> record.self.bounds,
               skipped |-> record.skipped,
               bytes |-> record.bytes])]

\* the loop writing the layer records (document.rs:144-153) over the cloned
\* layers
RECURSIVE RecordsLoop(_, _, _)
RecordsLoop(acc, i, size) ==
    IF i > Len(acc.layers) \/ acc.kind # "Ok" THEN acc
    ELSE RecordsLoop(
             AppendRecord(acc, i,
                 LayerRecordData(PromoteBounds(acc.layers[i].layer, size))),
             i + 1, size)

\* the channel data of blocks, of the layers at the paths below path
BlocksAt(path, blocks) ==
    [k \in 1..Len(blocks) |->
        [kind |-> blocks[k].kind, path |-> path \o blocks[k].rel,
         bounds |-> blocks[k].bounds, skipped |-> blocks[k].skipped,
         bytes |-> blocks[k].bytes]]

\* document.rs:157
AppendImage(acc, i, image) ==
    IF image.kind # "Ok"
    THEN [kind |-> image.kind, bytes |-> <<>>, layers |-> acc.layers,
          blocks |-> <<>>]
    ELSE [kind |-> "Ok",
          bytes |-> acc.bytes \o image.bytes,
          layers |-> [acc.layers EXCEPT ![i].layer = image.self],
          blocks |-> acc.blocks \o BlocksAt(acc.layers[i].path, image.blocks)]

\* the loop writing the layer images (document.rs:156-158)
RECURSIVE ImagesLoop(_, _)
ImagesLoop(acc, i) ==
    IF i > Len(acc.layers) \/ acc.kind # "Ok" THEN acc
    ELSE ImagesLoop(AppendImage(acc, i, EncodedImage(acc.layers[i].layer)),
                    i + 1)

\* data under its length in four bytes (document.rs:123, 163-164, 171)
WithLength(data) == WriteBE(Len(data), 4) \o data

\* a call that ends without a file
Failed(kind, error, layers) ==
    [kind |-> kind, error |-> error, bytes |-> <<>>, records |-> <<>>,
     blocks |-> <<>>, layers |-> layers]

\* the image data of the preview (document.rs:175-178)
PreviewData(d) ==
    IF d.preview_image = <<>>
    THEN [kind |-> "Ok", error |-> "", bytes |-> <<>>]
    ELSE PsdData(Head(d.preview_image), "Rle")

\* document.rs:53-180: the sections joined
JoinSections(d, records, images, preview) ==
    IF preview.kind # "Ok"
    THEN Failed(preview.kind, preview.error, images.layers)
    ELSE [kind |-> "Ok", error |-> "",
          bytes |-> HeaderSection(d)
              \o WithLength(ImageResources(d))
              \o WithLength(
                     WithLength(Pad(LayerCountField(d) \o records.bytes
                                        \o images.bytes, 2))
                         \o WriteBE(0, 4))
              \o preview.bytes,
          records |-> records.records,
          blocks |-> images.blocks,
          layers |-> images.layers]

\* document.rs:156-180
FileDataAfterImages(d, records, images) ==
    IF images.kind # "Ok" THEN Failed(images.kind, "", images.layers)
    ELSE JoinSections(d, records, images, PreviewData(d))

\* document.rs:155-180
FileDataAfterRecords(d, records) ==
    IF records.kind # "Ok" THEN Failed(records.kind, "", records.layers)
    ELSE FileDataAfterImages(d, records,
             ImagesLoop([kind |-> "Ok", bytes |-> <<>>,
                         layers |-> records.layers, blocks |-> <<>>], 1))

\* Document::file_data: kind "Ok" with the bytes of the file, "Err" with the
\* error, or "Panic".  records and blocks list the layer records and the
\* channel data written, layers is the local vector of cloned layers at the
\* end of the call.
FileData(d) ==
    FileDataAfterRecords(d,
        RecordsLoop([kind |-> "Ok", bytes |-> <<>>,
                     layers |-> AllLayers(d.layers), records |-> <<>>],
                    1, d.size))

(***************************************************************************)
(* The document specification.  The client builds a document from          *)
(* Document::new() by assigning its public fields and pushing layers made  *)
(* by Layer::new and Layer::group, then serializes it, any number of       *)
(* times, and may change bits_per_channel and color_mode in between.       *)
(***************************************************************************)
Pixels(width, height, rgba) ==
    [size |-> [width |-> width, height |-> height],
     bytes_per_row |-> 4 * width, data |-> Concat(rgba)]

\* 2x1: planes of two bytes, which stay raw
Image2x1 == Pixels(2, 1, <<(<<172, 0, 7, 255>>), (<<0, 0, 7, 255>>)>>)

\* 2x2 of one colour
Image2x2 == Pixels(2, 2, [i \in 1..4 |-> <<80, 209, 231, 255>>])

\* 4x1: the red plane encodes to 5 bytes, the others to 2
Image4x1 == Pixels(4, 1, [i \in 1..4 |-> <<i, 9, 9, 255>>])

Rect(x, y, width, height) ==
    [x |-> x, y |-> y, width |-> width, height |-> height]

\* The image layers the client makes: bounds, image, name.
LayerKinds ==
    { [bounds |-> Rect(1, 1, 2, 1), image |-> <<Image2x1>>, name |-> <<(<<76>>)>>],
      [bounds |-> ZeroRect, image |-> <<Image2x2>>, name |-> <<>>],
      [bounds |-> ZeroRect, image |-> <<>>, name |-> <<(<<233>>)>>],
      [bounds |-> Rect(0, 0, 4, 1), image |-> <<Image4x1>>, name |-> <<>>] }

DocumentSizes == {[width |-> 2, height |-> 2]}

PreviewImages == {Image2x2}

DepthsAndModes == {<<1, "Bitmap">>, <<16, "Lab">>}

\* the number of layers of a document, a group counted once
RECURSIVE Nodes(_)
Nodes(layers) ==
    IF layers = <<>> THEN 0
    ELSE 1 + Nodes(Head(layers).layers) + Nodes(Tail(layers))

Init ==
    /\ source = <<>>
    /\ encoded = <<>>
    /\ doc = DocumentNew
    /\ out = <<>>
    /\ outDoc = <<>>
    /\ prev = <<>>
    /\ prevDoc = <<>>
    /\ color_channel = <<>>
    /\ given_image = <<>>
    /\ given_layer = <<>>
    /\ call = <<>>

Building == out = <<>>

\* document.size = size
SetSize(size) ==
    /\ Building
    /\ doc.size # size
    /\ doc' = [doc EXCEPT !.size = size]
    /\ UNCHANGED <<source, encoded, out, outDoc, prev, prevDoc, unitVars>>

\* document.preview_image = Some(image)
SetPreviewImage(image) ==
    /\ Building
    /\ doc.preview_image = <<>>
    /\ doc' = [doc EXCEPT !.preview_image = <<image>>]
    /\ UNCHANGED <<source, encoded, out, outDoc, prev, prevDoc, unitVars>>

\* document.layers.push(layer), layer made by Layer::new(bounds) and given
\* its image and name
AddLayer(kind) ==
    /\ Building
    /\ Nodes(doc.layers) < MaxNodes
    /\ doc' = [doc EXCEPT !.layers =
                  Append(@, [LayerNew(kind.bounds) EXCEPT
                                !.image = kind.image, !.name = kind.name])]
    /\ UNCHANGED <<source, encoded, out, outDoc, prev, prevDoc, unitVars>>

\* the last k layers of the document become the children of a new group,
\* pushed in their place
GroupLayers(k) ==
    /\ Building
    /\ Nodes(doc.layers) < MaxNodes
    /\ k <= Len(doc.layers)
    /\ doc' = [doc EXCEPT !.layers =
                  Append(SubSeq(@, 1, Len(@) - k),
                         LayerGroup(SubSeq(@, Len(@) - k + 1, Len(@)), TRUE))]
    /\ UNCHANGED <<source, encoded, out, outDoc, prev, prevDoc, unitVars>>

\* document.bits_per_channel and document.color_mode assigned, between two
\* serializations
SetDepthAndMode(bits_per_channel, color_mode) ==
    /\ ~Building
    /\ <<doc.bits_per_channel, doc.color_mode>> # <<bits_per_channel, color_mode>>
    /\ doc' = [doc EXCEPT !.bits_per_channel = bits_per_channel,
                          !.color_mode = color_mode]
    /\ UNCHANGED <<source, encoded, out, outDoc, prev, prevDoc, unitVars>>

\* the clones written back into the document
DocumentWithClones(d, cloned) ==
    [d EXCEPT !.layers = [i \in 1..Len(cloned) |-> cloned[i].layer]]

\* file_data takes &self and works on clones of the layers
\* (document.rs:51, 137-141): the document is as it was
DocumentAfterFileData(d, cloned) == d

\* a call of document.file_data()
CallFileData ==
    LET result == FileData(doc)
    IN  /\ out' = <<result>>
        /\ outDoc' = <<doc>>
        /\ prev' = out
        /\ prevDoc' = outDoc
        /\ doc' = DocumentAfterFileData(doc, result.layers)
        /\ UNCHANGED <<source, encoded, unitVars>>

Next ==
    \/ \E size \in DocumentSizes : SetSize(size)
    \/ \E image \in PreviewImages : SetPreviewImage(image)
    \/ \E kind \in LayerKinds : AddLayer(kind)
    \/ \E k \in 0..MaxNodes : GroupLayers(k)
    \/ \E dm \in DepthsAndModes : SetDepthAndMode(dm[1], dm[2])
    \/ CallFileData

Spec == Init /\ [][Next]_vars

(***************************************************************************)
(* Reading a file back: the fields of the output at their offsets, and the *)
(* census of the document the call was given.                              *)
(***************************************************************************)
Called == out # <<>>
Result == Head(out)
Given  == Head(outDoc)
Wrote  == Called /\ Result.kind = "Ok"

\* the unsigned big-endian value of the n bytes after the first offset bytes
RECURSIVE ReadBE(_, _, _)
ReadBE(bytes, offset, n) ==
    IF n = 0 THEN 0
    ELSE ReadBE(bytes, offset, n - 1) * 256 + bytes[offset + n]

ReadI16(bytes, offset) ==
    IF ReadBE(bytes, offset, 2) >= 32768
    THEN ReadBE(bytes, offset, 2) - 65536
    ELSE ReadBE(bytes, offset, 2)

\* signature, version, reserved, channels, height, width, depth, mode, and
\* the length of the colour mode data
HeaderLength == Len(FILE_SIGNATURE) + 2 + 6 + 2 + 4 + 4 + 2 + 2 + 4

\* where the sections are: the image resources after the header under
\* their length, then the two lengths of the layer and mask information
ResourcesLength(bytes)    == ReadBE(bytes, HeaderLength, 4)
LayerAndMaskOffset(bytes) == HeaderLength + 4 + ResourcesLength(bytes)
LayerAndMaskLength(bytes) == ReadBE(bytes, LayerAndMaskOffset(bytes), 4)
LayerInfoLength(bytes)    == ReadBE(bytes, LayerAndMaskOffset(bytes) + 4, 4)
LayerInfoOffset(bytes)    == LayerAndMaskOffset(bytes) + 8

\* the layers of a type at any depth
RECURSIVE Census(_, _)
Census(layers, type) ==
    IF layers = <<>> THEN 0
    ELSE (IF Head(layers).layer_type = type THEN 1 ELSE 0)
         + Census(Head(layers).layers, type)
         + Census(Tail(layers), type)

\* the layers with their paths, at any depth, parents first
RECURSIVE Flattened(_, _, _)
Flattened(layers, i, prefix) ==
    IF i > Len(layers) THEN <<>>
    ELSE <<[path |-> prefix \o <<i>>, layer |-> layers[i]]>>
           \o Flattened(layers[i].layers, 1, prefix \o <<i>>)
           \o Flattened(layers, i + 1, prefix)

\* the depth of the deepest layer
Depth(layers) ==
    LET flat == Flattened(layers, 1, <<>>)
    IN  IF flat = <<>> THEN 0
        ELSE CHOOSE n \in 1..Len(flat) :
                /\ \E k \in 1..Len(flat) : Len(flat[k].path) = n
                /\ \A k \in 1..Len(flat) : Len(flat[k].path) <= n

\* which record or block of which layer
Keys(entries) ==
    [k \in 1..Len(entries) |-> <<entries[k].kind, entries[k].path>>]

RECURSIVE TotalLength(_)
TotalLength(entries) ==
    IF entries = <<>> THEN 0
    ELSE Len(Head(entries).bytes) + TotalLength(Tail(entries))

RECURSIVE TotalSkipped(_)
TotalSkipped(entries) ==
    IF entries = <<>> THEN 0
    ELSE Head(entries).skipped + TotalSkipped(Tail(entries))

(***************************************************************************)
(* C3: the layer count.                                                    *)
(***************************************************************************)
\* C3: the i16 at the start of the layer info of a file written is
\* -(I + 2 * G), I the image layers and G the groups of the document at any
\* depth.
C3_LayerCount ==
    Wrote =>
        ReadI16(Result.bytes, LayerInfoOffset(Result.bytes))
            = 0 - (Census(Given.layers, "Image")
                   + 2 * Census(Given.layers, "Group"))

\* a file written of a document with an image layer in a group in a group
C3_Witness ==
    /\ Wrote
    /\ Depth(Given.layers) >= 3
    /\ Census(Given.layers, "Image") >= 1
    /\ Census(Given.layers, "Group") >= 2
    /\ ReadI16(Result.bytes, LayerInfoOffset(Result.bytes)) = 0 - 5

(***************************************************************************)
(* C4, C5: the order of the records and of the channel data.               *)
(***************************************************************************)
\* the records in depth-first post-order: for a group its marker, the
\* records of its children, its opener
RECURSIVE PostOrder(_, _, _)
PostOrder(layers, i, prefix) ==
    IF i > Len(layers) THEN <<>>
    ELSE (IF layers[i].layer_type = "Group"
          THEN <<(<<"marker", prefix \o <<i>>>>)>>
                 \o PostOrder(layers[i].layers, 1, prefix \o <<i>>)
                 \o <<(<<"opener", prefix \o <<i>>>>)>>
          ELSE <<(<<"image", prefix \o <<i>>>>)>>)
         \o PostOrder(layers, i + 1, prefix)

\* C4: the layer records of a file written are, for each top-level layer in
\* order, its records in depth-first post-order: one record for an image
\* layer; for a group the marker record, the records of its children, the
\* opener record.
C4_RecordOrder ==
    Wrote => Keys(Result.records) = PostOrder(Given.layers, 1, <<>>)

\* C5: the blocks of channel data of a file written are in the order of
\* the records, one block for each record written.
C5_BlocksFollowRecords ==
    Wrote => Keys(Result.blocks) = Keys(Result.records)

(***************************************************************************)
(* C6: the length prefixes.                                                *)
(***************************************************************************)
\* the count, the records and the channel data, before the padding
LayerInfoUnpadded(result) ==
    2 + TotalLength(result.records) + TotalLength(result.blocks)

CountedLayers(d) ==
    Census(d.layers, "Image") + 2 * Census(d.layers, "Group")

\* C6: in a file written each length prefix is the length of what it
\* wraps: the image resources are the three resources, 54 bytes and the
\* payload of resource 0x0402, two zero bytes for each layer counted; the
\* layer info is the count, the records and the channel data, padded with
\* zeros to an even length; the layer and mask information is the layer
\* info, its prefix and the four bytes of the global mask length, zero.
C6_LengthPrefixes ==
    Wrote =>
        LET bytes   == Result.bytes
            payload == 2 * CountedLayers(Given)
            info    == LayerInfoUnpadded(Result)
            at      == LayerInfoOffset(bytes)
        IN  /\ ResourcesLength(bytes) = 54 + payload
            /\ ReadBE(bytes, HeaderLength + 4 + 46, 2) = 1026
            /\ ReadBE(bytes, HeaderLength + 4 + 50, 4) = payload
            /\ SubSeq(bytes, HeaderLength + 4 + 54 + 1,
                      HeaderLength + 4 + 54 + payload)
                   = [i \in 1..payload |-> 0]
            /\ LayerInfoLength(bytes) = info + (info % 2)
            /\ SubSeq(bytes, at + 3, at + info)
                   = Concat([k \in 1..Len(Result.records) |->
                                Result.records[k].bytes])
                     \o Concat([k \in 1..Len(Result.blocks) |->
                                   Result.blocks[k].bytes])
            /\ SubSeq(bytes, at + info + 1, at + LayerInfoLength(bytes))
                   = [i \in 1..(info % 2) |-> 0]
            /\ ReadBE(bytes, at + LayerInfoLength(bytes), 4) = 0
            /\ LayerAndMaskLength(bytes) = LayerInfoLength(bytes) + 4 + 4
            /\ Len(bytes) = LayerAndMaskOffset(bytes) + 4
                              + LayerAndMaskLength(bytes)
                              + Len(PreviewData(Given).bytes)

\* a file written whose layer info had an odd length before the padding, of
\* a document with a group
C6_Witness ==
    /\ Wrote
    /\ LayerInfoUnpadded(Result) % 2 = 1
    /\ LayerInfoLength(Result.bytes) = LayerInfoUnpadded(Result) + 1
    /\ Census(Given.layers, "Group") >= 1
    /\ Census(Given.layers, "Image") >= 1

(***************************************************************************)
(* C7: a channel whose compression fails.                                  *)
(***************************************************************************)
\* C7: file_data never returns a file in which a channel whose compression
\* failed has been left out of a record or of the channel data.
C7_ErrorsSurface ==
    Wrote => TotalSkipped(Result.records) + TotalSkipped(Result.blocks) = 0

(***************************************************************************)
(* C8: zero bounds.                                                        *)
(***************************************************************************)
Extent(size) ==
    [x |-> 0, y |-> 0, width |-> size.width, height |-> size.height]

\* the record of the layer at path is written, all that is written of the
\* layer at path is written with bounds
WrittenWith(entries, path, bounds) ==
    /\ \E k \in 1..Len(entries) : entries[k].path = path
    /\ \A k \in 1..Len(entries) :
           entries[k].path = path => entries[k].bounds = bounds

\* C8: in a file written, an image layer at any depth whose bounds are the
\* zero rectangle has its record and its channel data written with the
\* extent of the document as its bounds.
C8_Promotion ==
    Wrote =>
        \A k \in 1..Len(Flattened(Given.layers, 1, <<>>)) :
            LET at == Flattened(Given.layers, 1, <<>>)[k]
            IN  at.layer.layer_type = "Image" /\ at.layer.bounds = ZeroRect
                => /\ WrittenWith(Result.records, at.path, Extent(Given.size))
                   /\ WrittenWith(Result.blocks, at.path, Extent(Given.size))

WithDepthAndModeOf(d, other) ==
    [d EXCEPT !.bits_per_channel = other.bits_per_channel,
              !.color_mode = other.color_mode]

\* C10: a file written begins with the 30 bytes "8BPS", 00 01, six zeros,
\* number_of_channels, height, width, 00 08, 00 03, 00 00 00 00, and is the
\* file written of the document that differs in bits_per_channel and
\* color_mode only.
C10_Header ==
    Wrote =>
        /\ SubSeq(Result.bytes, 1, 12) = <<56, 66, 80, 83, 0, 1, 0, 0, 0, 0, 0, 0>>
        /\ ReadBE(Result.bytes, 12, 2) = Given.number_of_channels
        /\ ReadBE(Result.bytes, 14, 4) = Given.size.height
        /\ ReadBE(Result.bytes, 18, 4) = Given.size.width
        /\ SubSeq(Result.bytes, 23, 30) = <<0, 8, 0, 3, 0, 0, 0, 0>>
        /\ (prev # <<>> /\ WithDepthAndModeOf(Head(prevDoc), Given) = Given
                => Head(prev).bytes = Result.bytes)

\* two files written, of documents with layers that differ in
\* bits_per_channel and color_mode
C10_Witness ==
    /\ Wrote
    /\ prev # <<>>
    /\ Head(prev).kind = "Ok"
    /\ Head(prevDoc) # Given
    /\ WithDepthAndModeOf(Head(prevDoc), Given) = Given
    /\ Given.bits_per_channel = 16
    /\ Given.color_mode = "Lab"
    /\ Given.layers # <<>>
    /\ Given.size.width > 0

(***************************************************************************)
(* The channel specification.  The client makes a channel with             *)
(* ColorChannel::new, assigns its data, and calls compressed_data and      *)
(* rle_encoded_components on it with heights of its choice, any number of  *)
(* times.  call is the last call: its name, its argument, the channel      *)
(* before it and what it returned.                                         *)
(***************************************************************************)
ChannelPlanes == UNION {[1..n -> RleBytes] : n \in 0..MaxPlane}

ChannelHeights == 0..MaxHeight

ChannelInit ==
    /\ source = <<>>
    /\ encoded = <<>>
    /\ doc = NoDoc
    /\ out = <<>>
    /\ outDoc = <<>>
    /\ prev = <<>>
    /\ prevDoc = <<>>
    /\ color_channel \in
           {<<[ColorChannelNew("Red", Len(data)) EXCEPT !.data = data]>> :
               data \in ChannelPlanes}
    /\ given_image = <<>>
    /\ given_layer = <<>>
    /\ call = <<>>

\* channel.compressed_data(image_height)
CallCompressedData(image_height) ==
    /\ call' = <<[op |-> "compressed_data", image_height |-> image_height,
                  before |-> Head(color_channel),
                  result |-> CompressedData(Head(color_channel), image_height)]>>
    /\ color_channel' =
           <<CompressedData(Head(color_channel), image_height).self>>
    /\ UNCHANGED <<source, encoded, doc, out, outDoc, prev, prevDoc,
                   given_image, given_layer>>

\* channel.rle_encoded_components(image_height)
CallRleEncodedComponents(image_height) ==
    /\ call' = <<[op |-> "rle_encoded_components",
                  image_height |-> image_height,
                  before |-> Head(color_channel),
                  result |-> RleEncodedComponents(Head(color_channel),
                                                  image_height)]>>
    /\ UNCHANGED <<source, encoded, doc, out, outDoc, prev, prevDoc,
                   color_channel, given_image, given_layer>>

ChannelNext ==
    \/ \E image_height \in ChannelHeights : CallCompressedData(image_height)
    \/ \E image_height \in ChannelHeights :
           CallRleEncodedComponents(image_height)

SpecChannel == ChannelInit /\ [][ChannelNext]_vars

(***************************************************************************)
(* C13 to C17: the encoding of one channel.                                *)
(***************************************************************************)
Made(op) == call # <<>> /\ Head(call).op = op

\* the plane the call was made on, and row y of it (from 0) for the height
\* of the call
PlaneOfCall == Head(call).before.data

RowOfCall(y) ==
    SubSeq(PlaneOfCall,
           y * (Len(PlaneOfCall) \div Head(call).image_height) + 1,
           (y + 1) * (Len(PlaneOfCall) \div Head(call).image_height))

\* n as two bytes, high byte first
U16(n) == <<n \div 256, n % 256>>

\* the sum of the first n values of a table of u16
RECURSIVE SumOfLengths(_, _)
SumOfLengths(table, n) ==
    IF n = 0 THEN 0
    ELSE SumOfLengths(table, n - 1) + ReadBE(table, 2 * (n - 1), 2)

\* C13: for an image_height n >= 1, rle_encoded_components(n) returns
\* line_lengths of 2n bytes, n big-endian u16 values whose sum is the length
\* of the data returned.
C13_LineLengths ==
    Made("rle_encoded_components") /\ Head(call).image_height >= 1 =>
        /\ Head(call).result.ok
        /\ Len(Head(call).result.line_lengths) = 2 * Head(call).image_height
        /\ SumOfLengths(Head(call).result.line_lengths,
                        Head(call).image_height)
               = Len(Head(call).result.data)

\* the components of a plane of three rows of two bytes
C13_Witness ==
    /\ Made("rle_encoded_components")
    /\ Head(call).image_height = 3
    /\ Len(PlaneOfCall) = 6
    /\ Len(Head(call).result.line_lengths) = 6
    /\ Len(Head(call).result.data) = 9

\* C14: rle_encoded_components(n) returns as data the rows of the plane,
\* of data.len() div n bytes each, each encoded by itself, in order, and as
\* line_lengths the lengths of the encoded rows; the Rle payload that
\* compressed_data(n) computes is the line lengths followed by the data.
C14_PerRow ==
    /\ Made("rle_encoded_components") /\ Head(call).image_height >= 1 =>
           /\ Head(call).result.data
                  = Concat([y \in 1..Head(call).image_height |->
                               Encoded(RowOfCall(y - 1))])
           /\ Head(call).result.line_lengths
                  = Concat([y \in 1..Head(call).image_height |->
                               U16(Len(Encoded(RowOfCall(y - 1))))])
    /\ Made("compressed_data") /\ Head(call).image_height >= 1
           /\ Len(PlaneOfCall) > 2
           /\ Head(call).before.compressed_data = <<>> =>
           /\ Head(call).result.ok
           /\ Head(call).result.data
                  = Concat([y \in 1..Head(call).image_height |->
                               U16(Len(Encoded(RowOfCall(y - 1))))])
                    \o Concat([y \in 1..Head(call).image_height |->
                                  Encoded(RowOfCall(y - 1))])

\* six equal bytes in two rows: a repeat packet of three for each row
C14_Witness ==
    /\ Made("compressed_data")
    /\ Head(call).image_height = 2
    /\ IsRun(PlaneOfCall)
    /\ Len(PlaneOfCall) = 6
    /\ Head(call).before.compressed_data = <<>>
    /\ Head(call).result.data
           = <<0, 2, 0, 2, 254, PlaneOfCall[1], 254, PlaneOfCall[1]>>

\* C15: for a plane of at most 2 bytes compressed_data(h) returns the plane
\* with compression RawData, for every h, and the channel is as it was, its
\* cache empty; for a plane of more than 2 bytes a call that succeeds
\* reports compression Rle.
C15_SmallRaw ==
    Made("compressed_data") =>
        /\ Len(PlaneOfCall) <= 2 =>
               /\ Head(call).result.ok
               /\ Head(call).result.data = PlaneOfCall
               /\ Head(call).result.compression = "RawData"
               /\ Head(color_channel) = Head(call).before
               /\ Head(color_channel).compressed_data = <<>>
        /\ Len(PlaneOfCall) > 2 /\ Head(call).result.ok =>
               Head(call).result.compression = "Rle"

\* a plane of two bytes returned raw for height 0
C15_Witness ==
    /\ Made("compressed_data")
    /\ Len(PlaneOfCall) = 2
    /\ Head(call).image_height = 0
    /\ Head(call).result.compression = "RawData"
    /\ Head(call).result.data = PlaneOfCall

\* C16: rle_encoded_components(0) fails with InvalidImage; compressed_data(0)
\* on a channel of more than 2 bytes without a cache entry fails with
\* InvalidImage and leaves the channel as it was.
C16_ZeroHeight ==
    /\ Made("rle_encoded_components") /\ Head(call).image_height = 0 =>
           /\ ~Head(call).result.ok
           /\ Head(call).result.error = "InvalidImage"
    /\ Made("compressed_data") /\ Head(call).image_height = 0
           /\ Len(PlaneOfCall) > 2
           /\ Head(call).before.compressed_data = <<>> =>
           /\ ~Head(call).result.ok
           /\ Head(call).result.error = "InvalidImage"
           /\ Head(color_channel) = Head(call).before

\* compressed_data(0) failed on a plane of more than 2 bytes
C16_Witness ==
    /\ Made("compressed_data")
    /\ Head(call).image_height = 0
    /\ Len(PlaneOfCall) > 2
    /\ ~Head(call).result.ok
    /\ Head(call).result.error = "InvalidImage"
    /\ Head(color_channel).compressed_data = <<>>

\* C17: a channel encoded with an image_height of which the length of the
\* plane is not a multiple fails with InvalidImage.
C17_InconsistentHeight ==
    /\ call # <<>>
    /\ Head(call).op \in {"rle_encoded_components", "compressed_data"}
    /\ Head(call).image_height >= 1
    /\ Len(PlaneOfCall) % Head(call).image_height # 0
    /\ (Head(call).op = "compressed_data" =>
            Len(PlaneOfCall) > 2 /\ Head(call).before.compressed_data = <<>>)
    => /\ ~Head(call).result.ok
       /\ Head(call).result.error = "InvalidImage"

(***************************************************************************)
(* The image specification.  The client hands an image and a compression   *)
(* to image::psd_data.  The images are of every size up to                 *)
(* MaxImageWidth x MaxImageHeight, each pixel one of two colours whose     *)
(* eight components differ; with rows of exactly 4 * width bytes, with     *)
(* rows followed by four bytes of padding, or with the last byte missing.  *)
(***************************************************************************)
Palette == {<<1, 2, 3, 4>>, <<5, 6, 7, 8>>}

ImageSizes ==
    {[width |-> w, height |-> h] : w \in 0..MaxImageWidth,
                                   h \in 0..MaxImageHeight}

\* the images of a size with rows of 4 * width bytes
PackedImages(size) ==
    {Pixels(size.width, size.height, rgba) :
        rgba \in [1..(size.width * size.height) -> Palette]}

\* the image with four bytes after each of its rows
Padded(packed) ==
    [size |-> packed.size,
     bytes_per_row |-> packed.bytes_per_row + 4,
     data |-> Concat([y \in 1..packed.size.height |->
                  SubSeq(packed.data, (y - 1) * packed.bytes_per_row + 1,
                         y * packed.bytes_per_row) \o <<99, 99, 99, 99>>])]

\* the image without the last byte of its data
Truncated(packed) ==
    [packed EXCEPT !.data = SubSeq(@, 1, Len(@) - 1)]

Images ==
    UNION {PackedImages(size) : size \in ImageSizes}
        \cup {Padded(packed) :
                 packed \in UNION {PackedImages(size) : size \in ImageSizes}}
        \cup {Truncated(packed) :
                 packed \in UNION {PackedImages(size) : size \in ImageSizes}}

Compressions == {"RawData", "Rle", "ZipWithoutPrediction", "ZipWithPrediction"}

ImageInit ==
    /\ source = <<>>
    /\ encoded = <<>>
    /\ doc = NoDoc
    /\ out = <<>>
    /\ outDoc = <<>>
    /\ prev = <<>>
    /\ prevDoc = <<>>
    /\ color_channel = <<>>
    /\ given_image \in {<<i>> : i \in Images}
    /\ given_layer = <<>>
    /\ call = <<>>

\* image::psd_data(&image, &compression)
CallPsdData(compression) ==
    /\ call' = <<[op |-> "psd_data", compression |-> compression,
                  before |-> Head(given_image),
                  result |-> PsdData(Head(given_image), compression)]>>
    /\ UNCHANGED <<source, encoded, doc, out, outDoc, prev, prevDoc,
                   color_channel, given_image, given_layer>>

ImageNext == \E compression \in Compressions : CallPsdData(compression)

SpecImage == ImageInit /\ [][ImageNext]_vars

(***************************************************************************)
(* C18, C19: the whole-image encoder.                                      *)
(***************************************************************************)
\* C18: psd_data fails with UnsupportedCompression for ZipWithoutPrediction
\* and ZipWithPrediction, for every image, and gives no bytes; for RawData
\* and Rle it does not fail with UnsupportedCompression.
C18_ZipRejected ==
    Made("psd_data") =>
        /\ Head(call).compression
               \in {"ZipWithoutPrediction", "ZipWithPrediction"} =>
               /\ Head(call).result.kind = "Err"
               /\ Head(call).result.error = "UnsupportedCompression"
               /\ Head(call).result.bytes = <<>>
        /\ Head(call).compression \in {"RawData", "Rle"} =>
               Head(call).result.error # "UnsupportedCompression"

\* ZipWithPrediction rejected for an image of 2x2
C18_Witness ==
    /\ Made("psd_data")
    /\ Head(call).compression = "ZipWithPrediction"
    /\ Head(call).before.size = [width |-> 2, height |-> 2]
    /\ Head(call).result.kind = "Err"
    /\ Head(call).result.error = "UnsupportedCompression"

\* component c (0 red, 1 green, 2 blue, 3 alpha) of the pixels of row y
\* (from 0) of the image of the call
ComponentRow(c, y) ==
    [x \in 1..Head(call).before.size.width |->
        Head(call).before.data[y * Head(call).before.bytes_per_row
                                 + 4 * (x - 1) + c + 1]]

ComponentPlane(c) ==
    Concat([y \in 1..Head(call).before.size.height |-> ComponentRow(c, y - 1)])

ComponentTable(c) ==
    Concat([y \in 1..Head(call).before.size.height |->
               U16(Len(Encoded(ComponentRow(c, y - 1))))])

ComponentData(c) ==
    Concat([y \in 1..Head(call).before.size.height |->
               Encoded(ComponentRow(c, y - 1))])

\* C19: what psd_data returns is the compression code in two bytes (0
\* RawData, 1 Rle), followed for RawData by the planes of width * height
\* bytes of red, green, blue and alpha, 2 + 4 * width * height bytes in all,
\* and for Rle by the line lengths of red, green, blue and alpha and then
\* the encoded data of red, green, blue and alpha.
C19_Layout ==
    Made("psd_data") /\ Head(call).result.kind = "Ok" =>
        /\ Head(call).compression = "RawData" =>
               /\ Head(call).result.bytes
                      = <<0, 0>> \o ComponentPlane(0) \o ComponentPlane(1)
                            \o ComponentPlane(2) \o ComponentPlane(3)
               /\ Len(Head(call).result.bytes)
                      = 2 + 4 * Head(call).before.size.width
                              * Head(call).before.size.height
        /\ Head(call).compression = "Rle" =>
               Head(call).result.bytes
                   = <<0, 1>> \o ComponentTable(0) \o ComponentTable(1)
                         \o ComponentTable(2) \o ComponentTable(3)
                         \o ComponentData(0) \o ComponentData(1)
                         \o ComponentData(2) \o ComponentData(3)

\* the Rle data of an image of 3x2 of one colour, its rows padded
C19_Witness ==
    /\ Made("psd_data")
    /\ Head(call).compression = "Rle"
    /\ Head(call).before.size = [width |-> 3, height |-> 2]
    /\ Head(call).before.bytes_per_row = 16
    /\ Head(call).result.kind = "Ok"
    /\ Head(call).result.bytes
           = <<0, 1, 0, 2, 0, 2, 0, 2, 0, 2, 0, 2, 0, 2, 0, 2, 0, 2,
               254, 1, 254, 1, 254, 2, 254, 2, 254, 3, 254, 3, 254, 4, 254, 4>>

(***************************************************************************)
(* The layer specification.  The client makes an image layer with          *)
(* Layer::new, assigns its image, name and is_hidden, and calls            *)
(* record_data() and encoded_image() on it, any number of times, in any    *)
(* order.  call holds the last two calls.                                  *)
(***************************************************************************)
LayerBounds ==
    {ZeroRect, Rect(0, 0, 2, 2), Rect(1, 1, 2, 1), Rect(0, 0, 4, 1)}

\* the last is an image of 2x2 of four colours with rows of 12 bytes
LayerImages ==
    {<<>>, <<Image2x1>>, <<Image2x2>>, <<Image4x1>>,
     <<Padded(Pixels(2, 2, <<(<<1, 2, 3, 4>>), (<<5, 6, 7, 8>>),
                             (<<9, 10, 11, 12>>), (<<13, 14, 15, 16>>)>>))>>}

LayerNames == {<<>>, <<(<<76, 49>>)>>}

ImageLayers ==
    {[LayerNew(bounds) EXCEPT !.image = layer_image, !.name = name,
                              !.is_hidden = is_hidden] :
        bounds \in LayerBounds, layer_image \in LayerImages,
        name \in LayerNames, is_hidden \in BOOLEAN}

LayerInit ==
    /\ source = <<>>
    /\ encoded = <<>>
    /\ doc = NoDoc
    /\ out = <<>>
    /\ outDoc = <<>>
    /\ prev = <<>>
    /\ prevDoc = <<>>
    /\ color_channel = <<>>
    /\ given_image = <<>>
    /\ given_layer \in {<<l>> : l \in ImageLayers}
    /\ call = <<>>

\* a call goes in front of the last one
Calls(latest) == IF call = <<>> THEN <<latest>> ELSE <<latest, Head(call)>>

\* the last call ended in a panic: nothing is called after it
Aborted == call # <<>> /\ Head(call).result.kind = "Panic"

\* layer.record_data()
CallRecordData ==
    /\ ~Aborted
    /\ call' = Calls([op |-> "record_data", before |-> Head(given_layer),
                      result |-> RecordData(Head(given_layer))])
    /\ given_layer' = <<RecordData(Head(given_layer)).self>>
    /\ UNCHANGED <<source, encoded, doc, out, outDoc, prev, prevDoc,
                   color_channel, given_image>>

\* layer.encoded_image()
CallEncodedImage ==
    /\ ~Aborted
    /\ call' = Calls([op |-> "encoded_image", before |-> Head(given_layer),
                      result |-> EncodedImage(Head(given_layer))])
    /\ given_layer' = <<EncodedImage(Head(given_layer)).self>>
    /\ UNCHANGED <<source, encoded, doc, out, outDoc, prev, prevDoc,
                   color_channel, given_image>>

LayerNext == CallRecordData \/ CallEncodedImage

SpecLayer == LayerInit /\ [][LayerNext]_vars

(***************************************************************************)
(* The group specification.  The client makes a group with Layer::group    *)
(* from image layers and groups, assigns its bounds or leaves them, and    *)
(* calls record_data() and encoded_image() on it as on an image layer, or  *)
(* makes a group marker and calls them on it.                              *)
(***************************************************************************)
\* the image layers put in groups: with an image of planes of two bytes,
\* without image, without bounds, without either
GroupChildren ==
    {[LayerNew(Rect(0, 0, 2, 1)) EXCEPT !.image = <<Image2x1>>],
     [LayerNew(Rect(0, 0, 2, 2)) EXCEPT !.name = <<(<<76, 49>>)>>],
     [LayerNew(ZeroRect) EXCEPT !.image = <<Image2x2>>],
     LayerNew(ZeroRect)}

\* the sequences of at most n of the members
RECURSIVE UpTo(_, _)
UpTo(members, n) ==
    IF n = 0 THEN {<<>>}
    ELSE UpTo(members, n - 1)
             \cup {Append(layers, l) : layers \in [1..(n - 1) -> members],
                                       l \in members}

\* the image layers put in the groups within a group
InnerChildren ==
    {[LayerNew(Rect(0, 0, 2, 1)) EXCEPT !.image = <<Image2x1>>],
     [LayerNew(Rect(0, 0, 2, 2)) EXCEPT !.name = <<(<<76, 49>>)>>]}

InnerGroups ==
    {LayerGroup(child_layers, FALSE) :
        child_layers \in UpTo(InnerChildren, MaxChildren - 1)}

\* the bounds assigned to a group; Layer::group gives it none
GroupBounds == {ZeroRect, Rect(0, 0, 2, 2)}

Groups ==
    {[LayerGroup(child_layers, is_open) EXCEPT !.bounds = bounds] :
        child_layers \in UpTo(GroupChildren \cup InnerGroups, MaxChildren),
        is_open \in BOOLEAN, bounds \in GroupBounds}

GroupInit ==
    /\ source = <<>>
    /\ encoded = <<>>
    /\ doc = NoDoc
    /\ out = <<>>
    /\ outDoc = <<>>
    /\ prev = <<>>
    /\ prevDoc = <<>>
    /\ color_channel = <<>>
    /\ given_image = <<>>
    /\ given_layer \in {<<l>> : l \in Groups \cup {GroupMarker}}
    /\ call = <<>>

SpecGroup == GroupInit /\ [][LayerNext]_vars

(***************************************************************************)
(* C20: the sizes in the record and the channel data.                      *)
(***************************************************************************)
\* the last two calls were record_data() and encoded_image(), in either
\* order, and both returned bytes
RecordAndImage ==
    /\ Len(call) = 2
    /\ {call[1].op, call[2].op} = {"record_data", "encoded_image"}
    /\ call[1].result.kind = "Ok"
    /\ call[2].result.kind = "Ok"

RecordBytes ==
    IF call[1].op = "record_data" THEN call[1].result.bytes
    ELSE call[2].result.bytes

ImageBytes ==
    IF call[1].op = "encoded_image" THEN call[1].result.bytes
    ELSE call[2].result.bytes

\* the channels the layer stores
StoredChannels == Head(given_layer).channels

\* the channel entries of a record follow the bounds (16 bytes) and the
\* number of channels (2 bytes): a type code (2 bytes), a size (4 bytes)
EntryCode(i) == ReadI16(RecordBytes, 18 + 6 * (i - 1))
EntrySize(i) == ReadBE(RecordBytes, 20 + 6 * (i - 1), 4)

\* the compression tag and the compressed payload of a stored channel
TagOf(stored) == IF Len(stored.data) <= 2 THEN <<0, 0>> ELSE <<0, 1>>

PayloadOf(stored) ==
    IF Len(stored.data) <= 2 THEN stored.data
    ELSE IF stored.compressed_data # <<>> THEN Head(stored.compressed_data)
    ELSE <<>>

RECURSIVE SumOfSizes(_)
SumOfSizes(n) == IF n = 0 THEN 0 ELSE SumOfSizes(n - 1) + EntrySize(n)

\* C20: the i-th channel entry of the record of an image layer holds the
\* type code of the i-th stored channel and the length of its compressed
\* payload + 2, which is the number of bytes, compression tag and payload,
\* that encoded_image() gives for the i-th channel, in the same order; the
\* sizes of the record sum to the length of encoded_image().
C20_RecordSizes ==
    RecordAndImage =>
        /\ ReadBE(RecordBytes, 16, 2) = Len(StoredChannels)
        /\ Len(RecordBytes) >= 18 + 6 * Len(StoredChannels)
        /\ \A i \in 1..Len(StoredChannels) :
               /\ EntryCode(i) = ChannelTypeRawValue(StoredChannels[i].color_type)
               /\ EntrySize(i) = Len(PayloadOf(StoredChannels[i])) + 2
        /\ ImageBytes
               = Concat([i \in 1..Len(StoredChannels) |->
                            TagOf(StoredChannels[i])
                                \o PayloadOf(StoredChannels[i])])
        /\ SumOfSizes(Len(StoredChannels)) = Len(ImageBytes)

(***************************************************************************)
(* C21: the records of a group.                                            *)
(***************************************************************************)
\* the last call was op on a group and returned bytes
GroupCall(op) ==
    /\ Made(op)
    /\ Head(call).before.layer_type = "Group"
    /\ Head(call).result.kind = "Ok"

\* the children of the group called
ChildrenOfCall == Head(call).before.layers

\* the records of kind among those listed
RECURSIVE CountOfKind(_, _)
CountOfKind(records, kind) ==
    IF records = <<>> THEN 0
    ELSE CountOfKind(Tail(records), kind)
             + (IF Head(records).kind = kind THEN 1 ELSE 0)

\* the groups of a tree of layers
RECURSIVE GroupsIn(_)
GroupsIn(layers) ==
    IF layers = <<>> THEN 0
    ELSE GroupsIn(Tail(layers))
             + (IF Head(layers).layer_type = "Group"
                THEN 1 + GroupsIn(Head(layers).layers) ELSE 0)

RECURSIVE SumOfLens(_)
SumOfLens(seqs) ==
    IF seqs = <<>> THEN 0 ELSE Len(Head(seqs)) + SumOfLens(Tail(seqs))

\* the result is the record of a group marker, then the bytes of ofChildren
\* in order, then the record of the group itself; of the records of the
\* group itself one is a marker and one an opener, every group below gives
\* one of each as well, and the number of records is 2 + the number of
\* records of ofChildren
RecordsOfGroup(result, ofChildren) ==
    /\ \A i \in 1..Len(ofChildren) : ofChildren[i].kind = "Ok"
    /\ result.bytes
           = LayerRecordData(GroupMarker).bytes
                 \o Concat([i \in 1..Len(ofChildren) |-> ofChildren[i].bytes])
                 \o LayerRecordData(Head(call).before).bytes
    /\ result.bytes
           = Concat([k \in 1..Len(result.records) |-> result.records[k].bytes])
    /\ {k \in 1..Len(result.records) : result.records[k].rel = <<>>}
           = {1, Len(result.records)}
    /\ result.records[1].kind = "marker"
    /\ result.records[Len(result.records)].kind = "opener"
    /\ CountOfKind(result.records, "marker") = 1 + GroupsIn(ChildrenOfCall)
    /\ CountOfKind(result.records, "opener") = 1 + GroupsIn(ChildrenOfCall)
    /\ Len(result.records)
           = 2 + SumOfLens([i \in 1..Len(ofChildren) |-> ofChildren[i].records])

\* C21 as stated: record_data() on a group returns the record of a group
\* marker, then record_data() of each child as the child is, in order, then
\* the record of the group itself, 2 + the records of the children in all.
C21_Original ==
    GroupCall("record_data") =>
        RecordsOfGroup(Head(call).result,
                       [i \in 1..Len(ChildrenOfCall) |->
                           RecordData(ChildrenOfCall[i])])

\* C21: record_data() on a group returns the record of a group marker, then
\* record_data() of each child in order, a child whose bounds are the zero
\* rectangle taking the bounds of the group first, then the record of the
\* group itself; every group gives one marker and one opener, and the number
\* of records is 2 + the number of records of the children.
C21_GroupRecords ==
    GroupCall("record_data") =>
        RecordsOfGroup(Head(call).result,
                       [i \in 1..Len(ChildrenOfCall) |->
                           RecordData(InGroup(ChildrenOfCall[i],
                                              Head(call).before.bounds))])

\* the records of a group with bounds, of an image layer without bounds and
\* a group of one image layer: the image layer is recorded with the bounds
\* of the group
C21_Witness ==
    /\ GroupCall("record_data")
    /\ Head(call).before.bounds = Rect(0, 0, 2, 2)
    /\ Len(ChildrenOfCall) = 2
    /\ ChildrenOfCall[1].layer_type = "Image"
    /\ ChildrenOfCall[1].bounds = ZeroRect
    /\ ChildrenOfCall[2].layer_type = "Group"
    /\ Len(ChildrenOfCall[2].layers) = 1
    /\ Len(Head(call).result.records) = 6
    /\ [k \in 1..6 |-> Head(call).result.records[k].kind]
           = <<"marker", "image", "marker", "image", "opener", "opener">>
    /\ Head(call).result.records[2].bounds = Rect(0, 0, 2, 2)

(***************************************************************************)
(* C22: the channel data of a group.                                       *)
(***************************************************************************)
\* encoded_image() of each child of the group called
ImagesOfChildren ==
    [i \in 1..Len(ChildrenOfCall) |-> EncodedImage(ChildrenOfCall[i])]

\* C22: encoded_image() on a group returns four big-endian i16 zeros, then
\* encoded_image() of each child in order, then four big-endian i16 zeros;
\* its length is 16 + the lengths of encoded_image() of the children.
C22_GroupChannelData ==
    GroupCall("encoded_image") =>
        /\ \A i \in 1..Len(ChildrenOfCall) : ImagesOfChildren[i].kind = "Ok"
        /\ Head(call).result.bytes
               = <<0, 0, 0, 0, 0, 0, 0, 0>>
                     \o Concat([i \in 1..Len(ChildrenOfCall) |->
                                   ImagesOfChildren[i].bytes])
                     \o <<0, 0, 0, 0, 0, 0, 0, 0>>
        /\ Len(Head(call).result.bytes)
               = 16 + SumOfLens([i \in 1..Len(ChildrenOfCall) |->
                                    ImagesOfChildren[i].bytes])

\* the channel data of a group of a group of one image layer and an image
\* layer: the inner group gives 16 bytes around those of its child
C22_Witness ==
    /\ GroupCall("encoded_image")
    /\ Len(ChildrenOfCall) = 2
    /\ ChildrenOfCall[1].layer_type = "Group"
    /\ Len(ChildrenOfCall[1].layers) = 1
    /\ ChildrenOfCall[2].layer_type = "Image"
    /\ ChildrenOfCall[2].image # <<>>
    /\ Len(ImagesOfChildren[1].bytes) > 16
    /\ Len(ImagesOfChildren[2].bytes) > 0
    /\ Len(Head(call).result.bytes)
           = 32 + Len(EncodedImage(ChildrenOfCall[1].layers[1]).bytes)
                + Len(ImagesOfChildren[2].bytes)

(***************************************************************************)
(* C23: the record of a group marker.                                      *)
(***************************************************************************)
\* the last call was record_data() on Layer::group_marker()
MarkerCall ==
    /\ Made("record_data")
    /\ Head(call).before = GroupMarker

\* "8BIM", "norm", "luni", "lsct"
Tag8BIM == <<56, 66, 73, 77>>
TagNorm == <<110, 111, 114, 109>>
TagLuni == <<108, 117, 110, 105>>
TagLsct == <<108, 115, 99, 116>>

\* "</Layer group>" as a Pascal string padded, and as UTF-16 big-endian
MarkerPascalName ==
    <<14, 60, 47, 76, 97, 121, 101, 114, 32, 103, 114, 111, 117, 112, 62, 0>>

MarkerUnicodeName ==
    <<0, 0, 0, 14, 0, 60, 0, 47, 0, 76, 0, 97, 0, 121, 0, 101, 0, 114, 0, 32,
      0, 103, 0, 114, 0, 111, 0, 117, 0, 112, 0, 62>>

\* C23: the record of Layer::group_marker() is 16 zero bytes of bounds, the
\* channel count 00 04, the entries of Alpha (-1), Red (0), Green (1) and
\* Blue (2), each of size 00 00 00 02, "8BIM" "norm" FF 00 00 00, the length
\* 0x54 of the extra data, eight zero bytes, the name "</Layer group>" as a
\* Pascal and as a Unicode string, and "8BIM" "lsct" 00 00 00 04 00 00 00 03.
C23_MarkerRecord ==
    MarkerCall =>
        /\ Head(call).result.kind = "Ok"
        /\ Head(call).result.bytes
               = <<0, 0, 0, 0, 0, 0, 0, 0, 0, 0, 0, 0, 0, 0, 0, 0>>
                     \o <<0, 4>>
                     \o <<255, 255, 0, 0, 0, 2>> \o <<0, 0, 0, 0, 0, 2>>
                     \o <<0, 1, 0, 0, 0, 2>> \o <<0, 2, 0, 0, 0, 2>>
                     \o Tag8BIM \o TagNorm \o <<255, 0, 0, 0>>
                     \o <<0, 0, 0, 84>>
                     \o <<0, 0, 0, 0, 0, 0, 0, 0>>
                     \o MarkerPascalName
                     \o Tag8BIM \o TagLuni \o <<0, 0, 0, 32>>
                     \o MarkerUnicodeName
                     \o Tag8BIM \o TagLsct \o <<0, 0, 0, 4, 0, 0, 0, 3>>

\* record_data() on a marker returned its 142 bytes
C23_Witness ==
    /\ MarkerCall
    /\ Head(call).result.kind = "Ok"
    /\ Len(Head(call).result.bytes) = 142
    /\ SubSeq(Head(call).result.bytes, 127, 142)
           = <<56, 66, 73, 77, 108, 115, 99, 116, 0, 0, 0, 4, 0, 0, 0, 3>>

(***************************************************************************)
(* C24: the cache of a channel.                                            *)
(***************************************************************************)
\* a call of compressed_data on a channel of more than 2 bytes that returns
\* a payload leaves exactly this payload in the cache
CachePopulated ==
    \A image_height \in ChannelHeights :
        (/\ CallCompressedData(image_height)
         /\ Len(Head(color_channel).data) > 2
         /\ Head(call').result.ok)
            => /\ Head(color_channel').compressed_data
                      = <<Head(call').result.data>>
               /\ Head(call').result.compression = "Rle"

\* a call of compressed_data on a channel with a cache returns the cache,
\* whatever the height
CacheReturned ==
    \A image_height \in ChannelHeights :
        (/\ CallCompressedData(image_height)
         /\ Len(Head(color_channel).data) > 2
         /\ Head(color_channel).compressed_data # <<>>)
            => /\ Head(call').result.ok
               /\ Head(call').result.data
                      = Head(Head(color_channel).compressed_data)
               /\ Head(call').result.compression = "Rle"

\* no call changes a cache
CacheKept ==
    Head(color_channel).compressed_data # <<>>
        => color_channel' = color_channel

\* C24: a successful compressed_data call on a channel of more than 2 plane
\* bytes leaves the returned payload in the cache; every later
\* compressed_data call returns the cached bytes with compression Rle,
\* whatever image_height is passed; no call on the channel changes the cache.
C24_ChannelCache == [][CachePopulated /\ CacheReturned /\ CacheKept]_vars

\* a cache made for rows of 2 bytes was returned to a call with height 0,
\* for which encoding fails
C24_Witness ==
    /\ Made("compressed_data")
    /\ Head(call).image_height = 0
    /\ Len(Head(call).before.data) = 4
    /\ Head(call).before.compressed_data
           = <<RleEncodedData(Head(call).before, 2).data>>
    /\ ~RleEncodedData(Head(call).before, 0).ok
    /\ Head(call).result.ok
    /\ Head(call).result.data = Head(Head(call).before.compressed_data)

(***************************************************************************)
(* C25: the channels of an image layer are populated once.                 *)
(***************************************************************************)
\* the image the channels of a layer are made from: its image, or the clear
\* image of its bounds
ImageOfLayer(layer) ==
    IF layer.image # <<>> THEN Head(layer.image)
    ELSE ImageEmpty(layer.bounds.width, layer.bounds.height)

\* the layer has the four planes of its image as channels
Populated(layer, before) ==
    /\ Len(layer.channels) = 4
    /\ \A i \in 1..4 :
           layer.channels[i].data
               = Plane(ImageOfLayer(before), (i + 2) % 4)

\* the layer before its channels were populated
Unpopulated(layer) == [layer EXCEPT !.channels = <<>>]

\* what the operation of a call returns
Returned(op, layer) ==
    IF op = "record_data" THEN RecordData(layer) ELSE EncodedImage(layer)

\* C25: the channels of an image layer are empty before the first call of
\* record_data() or encoded_image(); the first call populates them from the
\* image of the layer; a later call finds them populated, leaves their
\* planes and the caches they hold as they are, and returns the bytes a
\* first call of its operation returns, whatever was called before.
C25_LazyChannels ==
    /\ call = <<>> => Head(given_layer).channels = <<>>
    /\ call # <<>> =>
           /\ Head(call).result.kind = "Ok"
           /\ Populated(Head(given_layer), Head(call).before)
           /\ Head(call).result.bytes
                  = Returned(Head(call).op, Unpopulated(Head(call).before)).bytes
    /\ Len(call) = 1 => Head(call).before.channels = <<>>
    /\ Len(call) = 2 =>
           /\ Head(call).before.channels # <<>>
           /\ \A i \in 1..4 :
                  /\ Head(given_layer).channels[i].data
                         = Head(call).before.channels[i].data
                  /\ Head(call).before.channels[i].compressed_data # <<>> =>
                         Head(given_layer).channels[i].compressed_data
                             = Head(call).before.channels[i].compressed_data
           /\ call[1].op = call[2].op =>
                  call[1].result.bytes = call[2].result.bytes

(***************************************************************************)
(* C26: the planes of the channels.                                        *)
(***************************************************************************)
\* the first call on an image layer with an image has populated its channels
PopulatedFromImage ==
    /\ Len(call) = 1
    /\ Head(call).before.layer_type = "Image"
    /\ Head(call).before.image # <<>>
    /\ Head(call).result.kind = "Ok"

\* the stored channel of component c (0 red, 1 green, 2 blue, 3 alpha)
StoredOf(c) == StoredChannels[((c + 1) % 4) + 1]

\* C26: the channels populated from an image of width w, height h and row
\* stride bytes_per_row are Alpha, Red, Green, Blue in this order, each with
\* a plane of w*h bytes where plane_c[y*w + x] = data[y*bytes_per_row + 4*x
\* + c] (c = 0 red, 1 green, 2 blue, 3 alpha); the planes are those
\* psd_data writes for the image without compression.
C26_Planes ==
    PopulatedFromImage =>
        LET given == Head(Head(call).before.image)
            w == given.size.width
            h == given.size.height
        IN  /\ [i \in 1..Len(StoredChannels) |-> StoredChannels[i].color_type]
                   = <<"Alpha", "Red", "Green", "Blue">>
            /\ \A c \in 0..3 :
                   /\ Len(StoredOf(c).data) = w * h
                   /\ StoredOf(c).data_length = w * h
                   /\ \A x \in 0..(w - 1), y \in 0..(h - 1) :
                          StoredOf(c).data[y * w + x + 1]
                              = given.data[y * given.bytes_per_row + 4 * x + c + 1]
            /\ PsdData(given, "RawData").bytes
                   = <<0, 0>> \o StoredOf(0).data \o StoredOf(1).data
                         \o StoredOf(2).data \o StoredOf(3).data

\* the planes of the image of 2x2 with rows of 12 bytes
C26_Witness ==
    /\ PopulatedFromImage
    /\ Head(Head(call).before.image).bytes_per_row = 12
    /\ StoredChannels[1].data = <<4, 8, 12, 16>>
    /\ StoredChannels[2].data = <<1, 5, 9, 13>>
    /\ StoredChannels[3].data = <<2, 6, 10, 14>>
    /\ StoredChannels[4].data = <<3, 7, 11, 15>>

(***************************************************************************)
(* C27: the channel data of an image layer.                                *)
(***************************************************************************)
\* the components of a stored channel for the height of the layer
ComponentsOfStored(i) ==
    RleEncodedComponents(StoredChannels[i],
                         Head(call).before.bounds.height)

\* the compression code of a stored channel and its payload: the plane, or
\* the line lengths and the data
CodeAndPayload(i) ==
    IF Len(StoredChannels[i].data) <= 2
    THEN <<0, 0>> \o StoredChannels[i].data
    ELSE <<0, 1>> \o ComponentsOfStored(i).line_lengths
             \o ComponentsOfStored(i).data

\* C27: encoded_image() on an image layer returns, for each of the channels
\* Alpha, Red, Green, Blue in this order, the compression code as a
\* big-endian i16 and then the payload of the channel, the line lengths and
\* the data for Rle, the plane for RawData, and nothing else.
C27_ChannelData ==
    (Made("encoded_image") /\ Head(call).before.layer_type = "Image") =>
        /\ Head(call).result.kind = "Ok"
        /\ Len(StoredChannels) = 4
        /\ \A i \in 1..Len(StoredChannels) :
               Len(StoredChannels[i].data) > 2 => ComponentsOfStored(i).ok
        /\ Head(call).result.bytes
               = Concat([i \in 1..Len(StoredChannels) |-> CodeAndPayload(i)])

(***************************************************************************)
(* The name specification.  The client makes an image layer of 2x1,        *)
(* assigns its name and calls record_data() and encoded_image() on it.     *)
(***************************************************************************)
\* "L", e with acute accent (2 bytes in UTF-8), the euro sign (3 bytes)
NameChars == {76, 233, 8364}

ShortNames == UNION {[1..n -> NameChars] : n \in 0..MaxName}

\* names of 254 to 257 bytes of one byte each, and of 256 bytes in 128
\* characters
LongNames ==
    {[i \in 1..n |-> 76] : n \in 254..257} \cup {[i \in 1..128 |-> 233]}

Names == {<<>>} \cup {<<string>> : string \in ShortNames \cup LongNames}

NameInit ==
    /\ source = <<>>
    /\ encoded = <<>>
    /\ doc = NoDoc
    /\ out = <<>>
    /\ outDoc = <<>>
    /\ prev = <<>>
    /\ prevDoc = <<>>
    /\ color_channel = <<>>
    /\ given_image = <<>>
    /\ given_layer \in
           {<<[LayerNew(Rect(0, 0, 2, 1)) EXCEPT !.image = <<Image2x1>>,
                                                  !.name = name]>> :
               name \in Names}
    /\ call = <<>>

SpecName == NameInit /\ [][LayerNext]_vars

(***************************************************************************)
(* C28: the Pascal name of a layer record.                                 *)
(***************************************************************************)
\* the characters of the name of the layer called, none for no name
NameOfCall ==
    IF Head(call).before.name = <<>> THEN <<>>
    ELSE Head(Head(call).before.name)

\* the Pascal field of the record returned for a layer of four channels:
\* it follows the bounds (16 bytes), the channel count (2), the channel
\* entries (24), the blend mode (8), opacity to filler (4), the length of
\* the extra data (4) and the two empty sections (8), and ends before the
\* Unicode name (16 bytes and 2 for each character)
PascalField ==
    SubSeq(Head(call).result.bytes, 67,
           Len(Head(call).result.bytes) - (16 + 2 * Len(NameOfCall)))

\* C28: the Pascal field of a layer record is one length byte, equal to the
\* number of UTF-8 bytes of the name, which is at most 255 and which follow
\* it, then zeros up to a multiple of 4 bytes in all; without a name the
\* field is zeros only.
C28_PascalName ==
    (Made("record_data") /\ Head(call).result.kind = "Ok") =>
        /\ Len(PascalField) % 4 = 0
        /\ Len(PascalField) > 0
        /\ Head(call).before.name = <<>> =>
               \A k \in 1..Len(PascalField) : PascalField[k] = 0
        /\ Head(call).before.name # <<>> =>
               /\ PascalField[1] = Len(Utf8(NameOfCall))
               /\ PascalField[1] <= 255
               /\ Len(PascalField) >= 1 + PascalField[1]
               /\ SubSeq(PascalField, 2, 1 + PascalField[1]) = Utf8(NameOfCall)
               /\ \A k \in (2 + PascalField[1])..Len(PascalField) :
                      PascalField[k] = 0
               /\ (\A k \in 1..Len(NameOfCall) : NameOfCall[k] < 128) =>
                      SubSeq(PascalField, 2, 1 + PascalField[1]) = NameOfCall

(***************************************************************************)
(* C29: the channel entries of a record.                                   *)
(***************************************************************************)
\* the channel count a record declares (after the 16 bytes of the bounds)
DeclaredChannels(record) == ReadBE(record, 16, 2)

\* the record holds as many channel entries of 6 bytes as it declares, of
\* the types Alpha, Red, Green, Blue, and "8BIM" right after them
WellFormed(record) ==
    /\ Len(record) >= 18 + 6 * DeclaredChannels(record) + 4
    /\ \A i \in 1..DeclaredChannels(record) :
           ReadI16(record, 18 + 6 * (i - 1)) \in {-1, 0, 1, 2}
    /\ SubSeq(record, 18 + 6 * DeclaredChannels(record) + 1,
              18 + 6 * DeclaredChannels(record) + 4) = RESOURCE_SIGNATURE

\* C29: every record that record_data() returns, of an image layer, of a
\* group marker or of a group opener, holds exactly number_of_channels
\* channel entries of 6 bytes between the channel count and the "8BIM" of
\* the blend mode.
C29_RecordsWellFormed ==
    (Made("record_data") /\ Head(call).result.kind = "Ok") =>
        \A k \in 1..Len(Head(call).result.records) :
            WellFormed(Head(call).result.records[k].bytes)

(***************************************************************************)
(* C30: file_data() returns.                                               *)
(***************************************************************************)
\* C30: file_data() ends by returning the bytes of the file or an error,
\* for every document; it never aborts.
C30_NoAbort == Called => Result.kind \in {"Ok", "Err"}

====
